---------------------------- MODULE Spec2Model ----------------------------
(***************************************************************************)
(* The change-proposal engine of pompora (src/src/AppShell.tsx): the line  *)
(* differ, the unified-diff parser and applier, the path sanitizer, the    *)
(* ChangeSet builder and the accept / reject controller.                   *)
(*                                                                         *)
(* A JavaScript string is modelled as a sequence of one-character strings, *)
(* so that splitting, trimming, prefix tests and joins are computed and    *)
(* never assumed.                                                          *)
(***************************************************************************)
EXTENDS Integers, Sequences, FiniteSets, TLC

(***************************************************************************)
(* JavaScript string primitives.                                           *)
(***************************************************************************)

\* The value of an out-of-range array read (a[i] with i outside the array).
Undefined == <<"undefined">>

\* The characters /\s/ and String.prototype.trim treat as white space.
WhiteSpace == {" ", "\t", "\n", "\r"}

Digits == {"0", "1", "2", "3", "4", "5", "6", "7", "8", "9"}

Letters ==
  {"a", "b", "c", "d", "e", "f", "g", "h", "i", "j", "k", "l", "m", "n", "o", "p", "q", "r", "s", "t", "u", "v", "w", "x", "y", "z",
   "A", "B", "C", "D", "E", "F", "G", "H", "I", "J", "K", "L", "M", "N", "O", "P", "Q", "R", "S", "T", "U", "V", "W", "X", "Y", "Z"}

DigitVal(c) ==
  CASE c = "0" -> 0 [] c = "1" -> 1 [] c = "2" -> 2 [] c = "3" -> 3
    [] c = "4" -> 4 [] c = "5" -> 5 [] c = "6" -> 6 [] c = "7" -> 7
    [] c = "8" -> 8 [] c = "9" -> 9

Max2(a, b) == IF a >= b THEN a ELSE b

Min2(a, b) == IF a <= b THEN a ELSE b

Abs(n) == IF n < 0 THEN -n ELSE n

\* s.startsWith(p)
StartsWith(s, p) == Len(s) >= Len(p) /\ SubSeq(s, 1, Len(p)) = p

\* s.slice(k) for k >= 0
Slice(s, k) == SubSeq(s, k + 1, Len(s))

\* s.includes(p)
Includes(s, p) == \E i \in 0..(Len(s) - Len(p)) : SubSeq(s, i + 1, i + Len(p)) = p

\* arr[i] with a 0-based index: Undefined outside the array.
At(arr, i) == IF i >= 0 /\ i < Len(arr) THEN arr[i + 1] ELSE Undefined

\* s[i] with a 0-based index into a string: no character outside the string.
CharAt(s, i) == IF i >= 0 /\ i < Len(s) THEN s[i + 1] ELSE ""

\* s.indexOf(c, i - 1) + 1: the first index >= i (1-based) of s that holds
\* c, 0 when there is none.
IndexOfFrom(s, c, i) ==
  IF \E j \in i..Len(s) : s[j] = c
  THEN CHOOSE j \in i..Len(s) : s[j] = c /\ \A k \in i..(j - 1) : s[k] # c
  ELSE 0

RECURSIVE SplitFrom(_, _, _)
\* The pieces of s from index i on.
SplitFrom(s, c, i) ==
  LET Cut(j) ==
        IF j = 0 THEN <<SubSeq(s, i, Len(s))>>
        ELSE <<SubSeq(s, i, j - 1)>> \o SplitFrom(s, c, j + 1)
  IN  Cut(IndexOfFrom(s, c, i))

\* s.split(c) for a one-character separator c: "" splits to [""].
Split(s, c) == SplitFrom(s, c, 1)

RECURSIVE Join(_, _)
\* parts.join(sep)
Join(parts, sep) ==
  IF Len(parts) = 0 THEN <<>>
  ELSE IF Len(parts) = 1 THEN parts[1]
  ELSE parts[1] \o sep \o Join(Tail(parts), sep)

\* s.replace(/\r\n/g, "\n"): every "\r" that a "\n" follows is dropped.
ReplaceCrLf(s) ==
  LET withNext == [i \in 1..Len(s) |-> <<s[i], CharAt(s, i)>>]
      stays(p) == ~(p[1] = "\r" /\ p[2] = "\n")
      Chars(kept) == [i \in 1..Len(kept) |-> kept[i][1]]
  IN  Chars(SelectSeq(withNext, stays))

\* s.replace(/\\/g, "/")
ReplaceBackslashes(s) == [i \in 1..Len(s) |-> IF s[i] = "\\" THEN "/" ELSE s[i]]

RECURSIVE TrimStart(_)
TrimStart(s) == IF Len(s) > 0 /\ s[1] \in WhiteSpace THEN TrimStart(Tail(s)) ELSE s

RECURSIVE TrimEnd(_)
TrimEnd(s) ==
  IF Len(s) > 0 /\ s[Len(s)] \in WhiteSpace THEN TrimEnd(SubSeq(s, 1, Len(s) - 1)) ELSE s

\* s.trim()
Trim(s) == TrimEnd(TrimStart(s))

\* The first index >= p (1-based) of s whose character is not in the class,
\* Len(s) + 1 when there is none.
RECURSIVE SkipClass(_, _, _)
SkipClass(s, p, class) ==
  IF p <= Len(s) /\ s[p] \in class THEN SkipClass(s, p + 1, class) ELSE p

RECURSIVE NumVal(_)
\* Number(digits) for a string of decimal digits
NumVal(ds) ==
  IF Len(ds) = 0 THEN 0 ELSE 10 * NumVal(SubSeq(ds, 1, Len(ds) - 1)) + DigitVal(ds[Len(ds)])

(***************************************************************************)
(* splitLines, parseUnifiedDiff, findSequenceStart, applyUnifiedDiffToText *)
(***************************************************************************)

splitLines(s) == Split(ReplaceCrLf(s), "\n")

\* One range of a hunk header, /\d+(?:,\d+)?/ read at position p, and
\* parseRange of what it matched: count is 1 when the ",count" part is absent.
MatchRange(s, p) ==
  LET Ranged(e1, e2) ==
        [ok    |-> e1 > p,
         start |-> NumVal(SubSeq(s, p, e1 - 1)),
         count |-> IF e2 > e1 THEN NumVal(SubSeq(s, e1 + 1, e2 - 1)) ELSE 1,
         next  |-> e2]
      \* (?:,\d+)? matches when a comma and at least one digit follow
      Counted(e1, e2) ==
        Ranged(e1, IF e1 > p /\ e1 <= Len(s) /\ s[e1] = "," /\ e2 > e1 + 1 THEN e2 ELSE e1)
      First(e1) == Counted(e1, SkipClass(s, e1 + 1, Digits))
  IN  First(SkipClass(s, p, Digits))

NoHeader == [ok |-> FALSE, oldStart |-> 0, oldCount |-> 0, newStart |-> 0, newCount |-> 0]

\* line.match(/^@@\s+-(\d+(?:,\d+)?)\s+\+(\d+(?:,\d+)?)\s+@@/)
MatchHunkHeader(line) ==
  LET Closing(r1, r2, p3) ==
        IF ~r2.ok \/ p3 = r2.next \/ ~StartsWith(Slice(line, p3 - 1), <<"@", "@">>)
        THEN NoHeader
        ELSE [ok |-> TRUE,
              oldStart |-> r1.start, oldCount |-> r1.count,
              newStart |-> r2.start, newCount |-> r2.count]
      NewRange(r1, r2) == Closing(r1, r2, SkipClass(line, r2.next, WhiteSpace))
      Plus(r1, p2) ==
        IF ~r1.ok \/ p2 = r1.next \/ CharAt(line, p2 - 1) # "+" THEN NoHeader
        ELSE NewRange(r1, MatchRange(line, p2 + 1))
      OldRange(r1) == Plus(r1, SkipClass(line, r1.next, WhiteSpace))
      Minus(p1) ==
        IF p1 = 3 \/ CharAt(line, p1 - 1) # "-" THEN NoHeader
        ELSE OldRange(MatchRange(line, p1 + 1))
  IN  IF ~StartsWith(line, <<"@", "@">>) THEN NoHeader
      ELSE Minus(SkipClass(line, 3, WhiteSpace))

NoNewlineMarker ==
  <<"\\", " ", "N", "o", " ", "n", "e", "w", "l", "i", "n", "e", " ", "a", "t", " ",
    "e", "n", "d", " ", "o", "f", " ", "f", "i", "l", "e">>

\* A line the body loop of a hunk skips without classifying it.
IsFileHeaderLine(l) ==
  \/ StartsWith(l, <<"-", "-", "-", " ">>)
  \/ StartsWith(l, <<"+", "+", "+", " ">>)
  \/ StartsWith(l, <<"d", "i", "f", "f", " ">>)

\* The hunk lines one body line contributes (none, or one).
ClassifyHunkLine(l) ==
  LET prefix == CharAt(l, 0)
      text   == Slice(l, 1)
  IN  IF prefix = " " THEN <<[kind |-> "ctx", text |-> text]>>
      ELSE IF prefix = "+" THEN <<[kind |-> "add", text |-> text]>>
      ELSE IF prefix = "-" THEN <<[kind |-> "del", text |-> text]>>
      ELSE IF l = NoNewlineMarker THEN <<>>
      ELSE <<[kind |-> "ctx", text |-> l]>>

\* The inner loop of parseUnifiedDiff: the body of one hunk, from line i
\* (0-based) to the next line starting with "@@ " or the end.
RECURSIVE ParseHunkBody(_, _, _)
ParseHunkBody(lines, i, acc) ==
  IF i >= Len(lines) THEN [next |-> i, lines |-> acc]
  ELSE
    LET l == lines[i + 1]
    IN  IF StartsWith(l, <<"@", "@", " ">>) THEN [next |-> i, lines |-> acc]
        ELSE IF IsFileHeaderLine(l) THEN ParseHunkBody(lines, i + 1, acc)
        ELSE ParseHunkBody(lines, i + 1, acc \o ClassifyHunkLine(l))

\* The outer loop of parseUnifiedDiff.
RECURSIVE ParseHunks(_, _)
ParseHunks(lines, i) ==
  LET Hunk(m, body) ==
        <<[oldStart |-> m.oldStart, oldCount |-> m.oldCount,
           newStart |-> m.newStart, newCount |-> m.newCount,
           lines |-> body.lines]>>
        \o ParseHunks(lines, body.next)
      Header(m) ==
        IF ~m.ok THEN ParseHunks(lines, i + 1)
        ELSE Hunk(m, ParseHunkBody(lines, i + 1, <<>>))
  IN  IF i >= Len(lines) THEN <<>> ELSE Header(MatchHunkHeader(lines[i + 1]))

parseUnifiedDiff(patchText) == ParseHunks(splitLines(patchText), 0)

\* The JavaScript null findSequenceStart returns when no run matches.
NotFound == -1

\* Whether seq occurs in hay at 0-based index i.
MatchesAt(hay, seq, i) == \A j \in 1..Len(seq) : hay[i + j] = seq[j]

\* The scan of findSequenceStart from index i with the best match so far:
\* a strictly smaller distance replaces it, and distance 0 stops the scan.
RECURSIVE ScanSequence(_, _, _, _, _, _)
ScanSequence(hay, seq, i, preferredIndex, best, bestDist) ==
  IF i > Len(hay) - Len(seq) THEN best
  ELSE IF ~MatchesAt(hay, seq, i) THEN ScanSequence(hay, seq, i + 1, preferredIndex, best, bestDist)
  ELSE
    LET dist == Abs(i - preferredIndex)
    IN  IF bestDist = -1 \/ dist < bestDist
        THEN (IF dist = 0 THEN i ELSE ScanSequence(hay, seq, i + 1, preferredIndex, i, dist))
        ELSE ScanSequence(hay, seq, i + 1, preferredIndex, best, bestDist)

\* A search that takes the first run at or after minIndex, wherever the
\* preferred index is.
findSequenceStartFirst(hay, seq, minIndex, preferredIndex) ==
  IF \E i \in minIndex..(Len(hay) - Len(seq)) : MatchesAt(hay, seq, i)
  THEN CHOOSE i \in minIndex..(Len(hay) - Len(seq)) :
         MatchesAt(hay, seq, i) /\ \A j \in minIndex..(i - 1) : ~MatchesAt(hay, seq, j)
  ELSE NotFound

findSequenceStart(hay, seq, minIndex, preferredIndex) ==
  IF Len(seq) = 0 THEN Max2(minIndex, Min2(preferredIndex, Len(hay)))
  ELSE IF minIndex > Len(hay) - Len(seq) THEN NotFound
  ELSE ScanSequence(hay, seq, minIndex, preferredIndex, NotFound, -1)

IsOldLine(x) == x.kind = "ctx" \/ x.kind = "del"

RECURSIVE TextsOf(_)
TextsOf(hls) == IF Len(hls) = 0 THEN <<>> ELSE <<hls[1].text>> \o TextsOf(Tail(hls))

PatchOk(text) == [ok |-> TRUE, text |-> text, error |-> "none"]

PatchErr(error) == [ok |-> FALSE, text |-> <<>>, error |-> error]

\* The walk over one hunk's lines from base index ai: context lines are
\* re-emitted, delete lines dropped, add lines inserted.
RECURSIVE WalkHunk(_, _, _, _)
WalkHunk(a, hls, ai, out) ==
  IF Len(hls) = 0 THEN [ok |-> TRUE, ai |-> ai, out |-> out, error |-> "none"]
  ELSE
    LET hl == hls[1]
    IN  IF hl.kind = "ctx"
        THEN IF At(a, ai) # hl.text
             THEN [ok |-> FALSE, ai |-> ai, out |-> out, error |-> "Context mismatch"]
             ELSE WalkHunk(a, Tail(hls), ai + 1, Append(out, a[ai + 1]))
        ELSE IF hl.kind = "del"
        THEN IF At(a, ai) # hl.text
             THEN [ok |-> FALSE, ai |-> ai, out |-> out, error |-> "Delete mismatch"]
             ELSE WalkHunk(a, Tail(hls), ai + 1, out)
        ELSE WalkHunk(a, Tail(hls), ai, Append(out, hl.text))

\* The loop over the hunks of applyUnifiedDiffToText.
RECURSIVE ApplyHunks(_, _, _, _)
ApplyHunks(a, hunks, ai, out) ==
  LET Walked(w) ==
        IF ~w.ok THEN PatchErr(w.error) ELSE ApplyHunks(a, Tail(hunks), w.ai, w.out)
      Found(h, foundIdx) ==
        IF foundIdx = NotFound THEN PatchErr("Failed to locate hunk context in file")
        ELSE IF foundIdx < ai THEN PatchErr("Patch hunk overlaps previous hunk")
        ELSE Walked(WalkHunk(a, h.lines, foundIdx, out \o SubSeq(a, ai + 1, foundIdx)))
      \* preferredIdx = Math.max(0, h.oldStart - 1); oldSeq = the ctx and del lines
      Hunk(h) ==
        Found(h, findSequenceStart(a, TextsOf(SelectSeq(h.lines, IsOldLine)), ai,
                                   Max2(0, h.oldStart - 1)))
  IN  IF Len(hunks) = 0 THEN PatchOk(Join(out \o SubSeq(a, ai + 1, Len(a)), <<"\n">>))
      ELSE Hunk(hunks[1])

applyUnifiedDiffToText(before, patchText) ==
  LET Parsed(hunks) ==
        IF Len(hunks) = 0 THEN PatchErr("Patch has no hunks")
        ELSE ApplyHunks(splitLines(before), hunks, 0, <<>>)
  IN  Parsed(parseUnifiedDiff(patchText))

(***************************************************************************)
(* diffLines (Myers) and computeStats                                      *)
(***************************************************************************)

\* map.get(k) ?? 0 for a Map from numbers to numbers
Get(v, k) == IF k \in DOMAIN v THEN v[k] ELSE 0

\* map.set(k, x)
Put(v, k, x) == [j \in (DOMAIN v) \cup {k} |-> IF j = k THEN x ELSE v[j]]

\* The snake: while (x < n && y < m && a[x] === b[y]) { x++; y++ }
RECURSIVE Slide(_, _, _, _)
Slide(a, b, x, y) ==
  IF x < Len(a) /\ y < Len(b) /\ a[x + 1] = b[y + 1] THEN Slide(a, b, x + 1, y + 1) ELSE x

\* Whether the step onto diagonal k in round d comes from diagonal k + 1
\* (an insertion), read from the table vv.
FromRight(vv, k, d) == k = -d \/ (k # d /\ Get(vv, k - 1) < Get(vv, k + 1))

\* The edit one backtracking round emits after its context lines: an add
\* when the walk has reached prevX, else a delete.
BacktrackEdit(a, b, x2, y2, prevX) ==
  IF x2 = prevX
  THEN [op |-> [type |-> "add", line |-> At(b, y2 - 1)], x |-> x2, y |-> y2 - 1]
  ELSE [op |-> [type |-> "del", line |-> At(a, x2 - 1)], x |-> x2 - 1, y |-> y2]

\* while (x2 > prevX && y2 > prevY) { ops.push(ctx a[x2 - 1]); x2--; y2-- }
RECURSIVE BacktrackSnake(_, _, _, _, _, _)
BacktrackSnake(a, x2, y2, prevX, prevY, ops) ==
  IF x2 > prevX /\ y2 > prevY
  THEN BacktrackSnake(a, x2 - 1, y2 - 1, prevX, prevY,
                      Append(ops, [type |-> "ctx", line |-> At(a, x2 - 1)]))
  ELSE [x |-> x2, y |-> y2, ops |-> ops]

\* The backtracking loop of diffLines, for d2 from trace.length - 1 down to
\* 0; trace is 1-based here, so round d2 reads trace[d2 + 1].  The ops are
\* collected last edit first.
RECURSIVE Backtrack(_, _, _, _, _, _, _)
Backtrack(a, b, trace, d2, x2, y2, ops) ==
  IF d2 < 0 THEN ops
  ELSE
    LET vv    == trace[d2 + 1]
        k2    == x2 - y2
        prevK == IF FromRight(vv, k2, d2) THEN k2 + 1 ELSE k2 - 1
        prevX == Get(vv, prevK)
        prevY == prevX - prevK
        s     == BacktrackSnake(a, x2, y2, prevX, prevY, ops)
    IN  IF d2 = 0 THEN s.ops
        ELSE
          LET e == BacktrackEdit(a, b, s.x, s.y, prevX)
          IN  Backtrack(a, b, trace, d2 - 1, e.x, e.y, Append(s.ops, e.op))

RECURSIVE Reverse(_)
Reverse(s) == IF Len(s) = 0 THEN <<>> ELSE Append(Reverse(Tail(s)), s[1])

\* The inner loop of diffLines over the diagonals k = -d, -d + 2, ..., d of
\* round d: v is the table of the round before, v2 the one being filled.
RECURSIVE ForwardK(_, _, _, _, _, _, _)
ForwardK(a, b, d, k, v, v2, trace) ==
  IF k > d THEN [done |-> FALSE, v2 |-> v2, ops |-> <<>>]
  ELSE
    LET x0  == IF FromRight(v, k, d) THEN Get(v, k + 1) ELSE Get(v, k - 1) + 1
        x   == Slide(a, b, x0, x0 - k)
        y   == x - k
        v2n == Put(v2, k, x)
    IN  IF x >= Len(a) /\ y >= Len(b)
        THEN [done |-> TRUE, v2 |-> v2n,
              ops |-> Reverse(Backtrack(a, b, Append(trace, v2n), Len(trace),
                                        Len(a), Len(b), <<>>))]
        ELSE ForwardK(a, b, d, k + 2, v, v2n, trace)

\* The outer loop of diffLines over the edit distances d = 0 .. n + m.
RECURSIVE ForwardD(_, _, _, _, _)
ForwardD(a, b, d, v, trace) ==
  IF d > Len(a) + Len(b) THEN <<>>
  ELSE
    LET r == ForwardK(a, b, d, -d, v, <<>>, trace)
    IN  IF r.done THEN r.ops
        ELSE ForwardD(a, b, d + 1, r.v2, Append(trace, r.v2))

\* diffLines on the two line arrays.
DiffLineArrays(a, b) == ForwardD(a, b, 0, [k \in {1} |-> 0], <<>>)

diffLines(before, after) == DiffLineArrays(splitLines(before), splitLines(after))

\* The JavaScript null of a ChangeFile's before / after.
Null == <<"null">>

\* f.before ?? ""
OrEmpty(t) == IF t = Null THEN <<>> ELSE t

CountType(ops, type) == Cardinality({i \in 1..Len(ops) : ops[i].type = type})

RECURSIVE SumStats(_, _)
SumStats(files, type) ==
  IF Len(files) = 0 THEN 0
  ELSE CountType(diffLines(OrEmpty(files[1].before), OrEmpty(files[1].after)), type)
       + SumStats(Tail(files), type)

computeStats(files) ==
  [files |-> Len(files), added |-> SumStats(files, "add"), removed |-> SumStats(files, "del")]

(***************************************************************************)
(* Edit operations.  An AiEditOp is a record with every field present; a   *)
(* field the JavaScript object does not carry holds Null.                  *)
(***************************************************************************)

EditWrite(path, content) ==
  [op |-> "write", path |-> path, content |-> content, from |-> Null, to |-> Null]

EditPatch(path, content) ==
  [op |-> "patch", path |-> path, content |-> content, from |-> Null, to |-> Null]

EditDelete(path) ==
  [op |-> "delete", path |-> path, content |-> Null, from |-> Null, to |-> Null]

EditRename(from, to) ==
  [op |-> "rename", path |-> Null, content |-> Null, from |-> from, to |-> to]

EditRun(cmd) ==
  [op |-> "run", path |-> Null, content |-> cmd, from |-> Null, to |-> Null]

\* typeof x === "string"
IsString(x) == x # Null

\* String(x ?? "")
StrOrEmpty(x) == IF x = Null THEN <<>> ELSE x

\* e.path?.trim() and the test !p that follows it: the trimmed string, empty
\* when the field is absent.
TrimmedOrEmpty(x) == IF x = Null THEN <<>> ELSE Trim(x)

(***************************************************************************)
(* normalizeGitPath, splitMultiFileGitDiffToEdits                          *)
(***************************************************************************)

StrDevNull == <<"/", "d", "e", "v", "/", "n", "u", "l", "l">>

StrDiffGit == <<"d", "i", "f", "f", " ", "-", "-", "g", "i", "t", " ">>

StrRenameFrom == <<"r", "e", "n", "a", "m", "e", " ", "f", "r", "o", "m", " ">>

StrRenameTo == <<"r", "e", "n", "a", "m", "e", " ", "t", "o", " ">>

StrDeletedFileMode == <<"d", "e", "l", "e", "t", "e", "d", " ", "f", "i", "l", "e", " ", "m", "o", "d", "e">>

StrNewFileMode == <<"n", "e", "w", " ", "f", "i", "l", "e", " ", "m", "o", "d", "e">>

StrHunkMark == <<"@", "@", " ">>

normalizeGitPath(p) ==
  LET t == Trim(p)
  IN  IF t = StrDevNull THEN t
      ELSE IF StartsWith(t, <<"a", "/">>) THEN Slice(t, 2)
      ELSE IF StartsWith(t, <<"b", "/">>) THEN Slice(t, 2)
      ELSE t

\* The first loop of splitMultiFileGitDiffToEdits: the lines are cut into
\* blocks at every "diff --git " line, those before the first one dropped.
RECURSIVE GitBlocks(_, _, _)
GitBlocks(lines, i, cur) ==
  IF i > Len(lines) THEN (IF Len(cur) > 0 THEN <<cur>> ELSE <<>>)
  ELSE IF StartsWith(lines[i], StrDiffGit)
       THEN (IF Len(cur) > 0 THEN <<cur>> ELSE <<>>) \o GitBlocks(lines, i + 1, <<lines[i]>>)
  ELSE IF Len(cur) = 0 THEN GitBlocks(lines, i + 1, cur)
  ELSE GitBlocks(lines, i + 1, Append(cur, lines[i]))

\* The header scan of one block: the last line with the prefix decides, and
\* Null stands for "no such line".
RECURSIVE LastWithPrefix(_, _, _)
LastWithPrefix(b, prefix, i) ==
  IF i = 0 THEN Null
  ELSE IF StartsWith(b[i], prefix) THEN normalizeGitPath(Slice(b[i], Len(prefix)))
  ELSE LastWithPrefix(b, prefix, i - 1)

\* A JavaScript truthy string: neither null nor empty.
Truthy(x) == x # Null /\ Len(x) > 0

\* The edits one block contributes.
BlockEdits(b) ==
  LET blockText  == Join(b, <<"\n">>)
      renameFrom == LastWithPrefix(b, StrRenameFrom, Len(b))
      renameTo   == LastWithPrefix(b, StrRenameTo, Len(b))
      oldPath    == LastWithPrefix(b, <<"-", "-", "-", " ">>, Len(b))
      newPath    == LastWithPrefix(b, <<"+", "+", "+", " ">>, Len(b))
      isDelete   == newPath = StrDevNull
                    \/ \E i \in 1..Len(b) : StartsWith(b[i], StrDeletedFileMode)
      isNew      == oldPath = StrDevNull
                    \/ \E i \in 1..Len(b) : StartsWith(b[i], StrNewFileMode)
      hasHunks   == Includes(blockText, StrHunkMark)
      path       == IF Truthy(newPath) /\ newPath # StrDevNull THEN newPath
                    ELSE IF Truthy(oldPath) /\ oldPath # StrDevNull THEN oldPath
                    ELSE Null
  IN  IF Truthy(renameFrom) /\ Truthy(renameTo)
      THEN <<EditRename(renameFrom, renameTo)>>
           \o (IF hasHunks THEN <<EditPatch(renameTo, blockText)>> ELSE <<>>)
      ELSE IF path = Null THEN <<>>
      ELSE IF isDelete THEN <<EditDelete(path)>>
      ELSE IF hasHunks THEN <<EditPatch(path, blockText)>>
      ELSE IF isNew THEN <<EditWrite(path, <<>>)>>
      ELSE <<>>

RECURSIVE ConcatMap(_, _)
ConcatMap(blocks, i) ==
  IF i > Len(blocks) THEN <<>> ELSE BlockEdits(blocks[i]) \o ConcatMap(blocks, i + 1)

splitMultiFileGitDiffToEdits(diffText) == ConcatMap(GitBlocks(splitLines(diffText), 1, <<>>), 1)

(***************************************************************************)
(* basename, sanitizePath, normalizeAiEdits                                *)
(***************************************************************************)

NonEmpty(x) == Len(x) > 0

basename(p) ==
  LET parts == SelectSeq(Split(ReplaceBackslashes(p), "/"), NonEmpty)
  IN  IF Len(parts) > 0 THEN parts[Len(parts)] ELSE p

\* while (p.startsWith("./")) p = p.slice(2)
RECURSIVE StripDotSlash(_)
StripDotSlash(p) == IF StartsWith(p, <<".", "/">>) THEN StripDotSlash(Slice(p, 2)) ELSE p

\* s.replace(/\/$/, "")
StripTrailingSlash(s) ==
  IF Len(s) > 0 /\ s[Len(s)] = "/" THEN SubSeq(s, 1, Len(s) - 1) ELSE s

\* /^[A-Za-z]:\//.test(p)
HasDrivePrefix(p) == Len(p) >= 3 /\ p[1] \in Letters /\ p[2] = ":" /\ p[3] = "/"

\* The workspace-root prefix removed from p when p is the root or lies under it.
StripRoot(p, root) ==
  IF Len(root) > 0 /\ (p = root \/ StartsWith(p, root \o <<"/">>))
  THEN LET r == Slice(p, Len(root)) IN IF StartsWith(r, <<"/">>) THEN Slice(r, 1) ELSE r
  ELSE p

\* A path that looks absolute or holds ".." kept as it is.
CollapseUnsafeNever(p) == p

\* The collapse of a path that still looks absolute or holds ".." to its
\* last segment.
CollapseUnsafe(p) ==
  IF StartsWith(p, <<"/">>) \/ HasDrivePrefix(p) \/ Includes(p, <<".", ".">>)
  THEN basename(p) ELSE p

sanitizePath(raw, workspaceRoot) ==
  LET p0   == Trim(StrOrEmpty(raw))
      root == StripTrailingSlash(ReplaceBackslashes(StrOrEmpty(workspaceRoot)))
      p3   == CollapseUnsafe(StripRoot(StripDotSlash(ReplaceBackslashes(p0)), root))
  IN  IF Len(p0) = 0 THEN p0
      ELSE IF StartsWith(p3, <<"/">>) THEN Slice(p3, 1) ELSE p3

\* sanitizeOne: the edit with its paths sanitized, and whether this edit
\* sets didSanitize.
sanitizeOne(e, workspaceRoot) ==
  IF e.op = "rename"
  THEN LET from == IF IsString(e.from) THEN sanitizePath(e.from, workspaceRoot) ELSE e.from
           to   == IF IsString(e.to) THEN sanitizePath(e.to, workspaceRoot) ELSE e.to
       IN  [edit |-> [e EXCEPT !.from = from, !.to = to],
            did  |-> \/ (Truthy(e.from) /\ Truthy(from) /\ e.from # from)
                     \/ (Truthy(e.to) /\ Truthy(to) /\ e.to # to)]
  ELSE IF IsString(e.path)
  THEN LET path == sanitizePath(e.path, workspaceRoot)
       IN  [edit |-> [e EXCEPT !.path = path], did |-> e.path # path]
  ELSE [edit |-> e, did |-> FALSE]

\* Whether normalizeAiEdits expands a patch edit through the splitter.
ExpandsAsGitDiff(e) ==
  LET patchText   == StrOrEmpty(e.content)
      hasGitDiff  == Includes(patchText, StrDiffGit) /\ Includes(patchText, StrHunkMark)
      missingPath == Len(TrimmedOrEmpty(e.path)) = 0
  IN  /\ e.op = "patch"
      /\ hasGitDiff
      /\ (missingPath \/ Includes(patchText, <<"\n">> \o StrDiffGit))

\* The edits one raw edit becomes before sanitization.
ExpandEdit(e) ==
  IF ExpandsAsGitDiff(e) THEN splitMultiFileGitDiffToEdits(StrOrEmpty(e.content)) ELSE <<e>>

RECURSIVE ExpandAll(_)
ExpandAll(edits) ==
  IF Len(edits) = 0 THEN <<>> ELSE ExpandEdit(edits[1]) \o ExpandAll(Tail(edits))

normalizeAiEdits(edits, workspaceRoot) ==
  LET expanded == ExpandAll(edits)
      one(i)   == sanitizeOne(expanded[i], workspaceRoot)
  IN  [edits       |-> [i \in 1..Len(expanded) |-> one(i).edit],
       didSanitize |-> \E i \in 1..Len(expanded) : one(i).did]

(***************************************************************************)
(* The workspace I/O capability (workspace_read_file, workspace_write_file,*)
(* workspace_delete, workspace_rename) and the editor tabs.  The workspace *)
(* is a function from the paths of the existing files to their contents.   *)
(* An operation yields the set of outcomes it can have: where the backend's*)
(* behaviour is not fixed (deleting a missing file, renaming onto an       *)
(* existing one) both outcomes are possible, and with mayFail an operation *)
(* can also fail with an I/O error.                                        *)
(***************************************************************************)

Exists(d, p) == p \in DOMAIN d

DiskPut(d, p, c) == [q \in (DOMAIN d) \cup {p} |-> IF q = p THEN c ELSE d[q]]

DiskRemove(d, p) == [q \in (DOMAIN d) \ {p} |-> d[q]]

IoOk(d) == [ok |-> TRUE, disk |-> d, injected |-> FALSE]

IoFail(d, injected) == [ok |-> FALSE, disk |-> d, injected |-> injected]

IoInjected(d, mayFail) == IF mayFail THEN {IoFail(d, TRUE)} ELSE {}

workspaceWriteFile(d, p, c, mayFail) == {IoOk(DiskPut(d, p, c))} \cup IoInjected(d, mayFail)

workspaceDelete(d, p, mayFail) ==
  (IF Exists(d, p) THEN {IoOk(DiskRemove(d, p))} ELSE {IoOk(d), IoFail(d, FALSE)})
  \cup IoInjected(d, mayFail)

workspaceRename(d, from, to, mayFail) ==
  (IF ~Exists(d, from) THEN {IoFail(d, FALSE)}
   ELSE IF from = to THEN {IoOk(d)}
   ELSE IF Exists(d, to) THEN {IoOk(DiskPut(DiskRemove(d, from), to, d[from])), IoFail(d, FALSE)}
   ELSE {IoOk(DiskPut(DiskRemove(d, from), to, d[from]))})
  \cup IoInjected(d, mayFail)

\* try { existing = await workspaceReadFile(p) } catch { existing = orElse }
ReadOr(d, p, orElse) == IF Exists(d, p) THEN d[p] ELSE orElse

\* tabs.find((t) => t.path === p): the index of the first tab on p, 0 if none
RECURSIVE FindTab(_, _, _)
FindTab(t, p, i) ==
  IF i > Len(t) THEN 0 ELSE IF t[i].path = p THEN i ELSE FindTab(t, p, i + 1)

\* openFile: a tab on the path is added when there is none, with the file's
\* content, or "" when the file cannot be read.
openFile(t, d, p) ==
  IF Len(p) = 0 \/ FindTab(t, p, 1) # 0 THEN t
  ELSE Append(t, [path |-> p, content |-> ReadOr(d, p, <<>>)])

TabsSetContent(t, p, c) ==
  [i \in 1..Len(t) |-> IF t[i].path = p THEN [t[i] EXCEPT !.content = c] ELSE t[i]]

TabsRemove(t, p) == LET keep(x) == x.path # p IN SelectSeq(t, keep)

TabsRename(t, from, to) ==
  [i \in 1..Len(t) |-> IF t[i].path = from THEN [t[i] EXCEPT !.path = to] ELSE t[i]]

(***************************************************************************)
(* applyAiEditsNow: one iteration of its loop over the edits.              *)
(***************************************************************************)

\* shown is the path handed to opts.previewFile, Null when it is not called.
StepOut(io, t, run, shown) ==
  [ok |-> io.ok, disk |-> io.disk, tabs |-> t, injected |-> io.injected, run |-> run,
   shown |-> shown]

\* throw new Error(...): the iteration fails before any I/O
StepThrow(d, t) == StepOut(IoFail(d, FALSE), t, Null, Null)

\* The outcomes of one edit of applyAiEditsNow on workspace d and tabs t;
\* preview says whether opts.previewFile is given.
ApplyEditOutcomes(e, d, t, preview, mayFail) ==
  IF e.op = "write" THEN
    LET p  == TrimmedOrEmpty(e.path)
        t1 == IF preview THEN openFile(t, d, p) ELSE t
        c  == StrOrEmpty(e.content)
    IN  IF Len(p) = 0 THEN {StepThrow(d, t)}
        ELSE {StepOut(io, IF io.ok THEN TabsSetContent(t1, p, c) ELSE t1, Null,
                      IF preview THEN p ELSE Null) :
                io \in workspaceWriteFile(d, p, c, mayFail)}
  ELSE IF e.op = "patch" THEN
    LET Patched(p, res, t1) ==
          IF Len(p) = 0 \/ ~res.ok THEN {StepThrow(d, t)}
          ELSE {StepOut(io, IF io.ok THEN TabsSetContent(t1, p, res.text) ELSE t1, Null,
                        IF preview THEN p ELSE Null) :
                  io \in workspaceWriteFile(d, p, res.text, mayFail)}
        Read(p) ==
          Patched(p, applyUnifiedDiffToText(ReadOr(d, p, <<>>), StrOrEmpty(e.content)),
                  IF preview THEN openFile(t, d, p) ELSE t)
    IN  Read(TrimmedOrEmpty(e.path))
  ELSE IF e.op = "delete" THEN
    LET p == TrimmedOrEmpty(e.path)
    IN  IF Len(p) = 0 THEN {StepThrow(d, t)}
        ELSE {StepOut(io, IF io.ok THEN TabsRemove(t, p) ELSE t, Null, Null) :
                io \in workspaceDelete(d, p, mayFail)}
  ELSE IF e.op = "rename" THEN
    LET from == TrimmedOrEmpty(e.from)
        to   == TrimmedOrEmpty(e.to)
    IN  IF Len(from) = 0 \/ Len(to) = 0 THEN {StepThrow(d, t)}
        ELSE {StepOut(io, IF io.ok THEN TabsRename(t, from, to) ELSE t, Null, Null) :
                io \in workspaceRename(d, from, to, mayFail)}
  ELSE IF e.op = "run" THEN
    LET cmd == Trim(StrOrEmpty(e.content))
    IN  IF Len(cmd) = 0 THEN {StepThrow(d, t)} ELSE {StepOut(IoOk(d), t, cmd, Null)}
  ELSE {StepThrow(d, t)}

(***************************************************************************)
(* buildChangeSet: one iteration of its loop over the edits.               *)
(***************************************************************************)

\* readBefore: an open tab's content wins over the file; null when the file
\* cannot be read.
readBefore(t, d, p) ==
  IF FindTab(t, p, 1) # 0 THEN t[FindTab(t, p, 1)].content ELSE ReadOr(d, p, Null)

Arrow == <<" ", "→", " ">>

ChangeFile(kind, path, before, after) ==
  [kind |-> kind, path |-> path, before |-> before, after |-> after]

BuildOut(ok, files, seen) == [ok |-> ok, files |-> files, seen |-> seen]

\* files and seen after the edit e, or ok = FALSE when its patch does not apply.
BuildEdit(e, files, seen, t, d) ==
  IF e.op = "write" THEN
    LET p == TrimmedOrEmpty(e.path)
    IN  IF Len(p) = 0 \/ <<"w", p>> \in seen THEN BuildOut(TRUE, files, seen)
        ELSE BuildOut(TRUE,
                      Append(files, ChangeFile("write", p, readBefore(t, d, p), StrOrEmpty(e.content))),
                      seen \cup {<<"w", p>>})
  ELSE IF e.op = "patch" THEN
    LET Patched(p, before, res) ==
          IF ~res.ok THEN BuildOut(FALSE, files, seen \cup {<<"p", p>>})
          ELSE BuildOut(TRUE, Append(files, ChangeFile("write", p, before, res.text)),
                        seen \cup {<<"p", p>>})
        Read(p, before) ==
          IF Len(p) = 0 \/ <<"p", p>> \in seen THEN BuildOut(TRUE, files, seen)
          ELSE Patched(p, before, applyUnifiedDiffToText(before, StrOrEmpty(e.content)))
        On(p) == Read(p, OrEmpty(readBefore(t, d, p)))
    IN  On(TrimmedOrEmpty(e.path))
  ELSE IF e.op = "delete" THEN
    LET p == TrimmedOrEmpty(e.path)
    IN  IF Len(p) = 0 \/ <<"d", p>> \in seen THEN BuildOut(TRUE, files, seen)
        ELSE BuildOut(TRUE, Append(files, ChangeFile("delete", p, readBefore(t, d, p), Null)),
                      seen \cup {<<"d", p>>})
  ELSE IF e.op = "rename" THEN
    LET from == TrimmedOrEmpty(e.from)
        to   == TrimmedOrEmpty(e.to)
        key  == <<"r", from \o <<"-", ">">> \o to>>
    IN  IF Len(from) = 0 \/ Len(to) = 0 \/ key \in seen THEN BuildOut(TRUE, files, seen)
        ELSE BuildOut(TRUE,
                      Append(files, ChangeFile("rename", from \o Arrow \o to,
                                               readBefore(t, d, from), readBefore(t, d, from))),
                      seen \cup {key})
  ELSE BuildOut(TRUE, files, seen)

\* The ChangeSet buildChangeSet returns once its loop is through.
NewChangeSet(id, edits, files) ==
  [id |-> id, edits |-> edits, files |-> files, stats |-> computeStats(files), applied |-> FALSE]

\* activeChat.changeSet = null
NoCS ==
  [id |-> 0, edits |-> <<>>, files |-> <<>>,
   stats |-> [files |-> 0, added |-> 0, removed |-> 0], applied |-> FALSE]

(***************************************************************************)
(* confirmApplyChangeSet and the per-file and whole-set handlers' pure     *)
(* parts.                                                                  *)
(***************************************************************************)

\* The number of files above which accept-all asks for confirmation.
LargeChange == 8

\* A confirmation that has no reason to ask about renames.
NeedsConfirmNoRename(cs) ==
  \/ Len(cs.files) > LargeChange
  \/ \E i \in 1..Len(cs.files) :
       \/ cs.files[i].kind = "write" /\ cs.files[i].before = Null
       \/ cs.files[i].kind = "delete"

\* Whether confirmApplyChangeSet has a reason to ask.
NeedsConfirm(cs) ==
  \/ Len(cs.files) > LargeChange
  \/ \E i \in 1..Len(cs.files) :
       \/ cs.files[i].kind = "write" /\ cs.files[i].before = Null
       \/ cs.files[i].kind = "delete"
       \/ cs.files[i].kind = "rename"

IsWriteOn(f, path) == f.kind = "write" /\ f.path = path

\* cs.files.filter((f) => !(f.kind === "write" && f.path === path))
FilesWithout(files, path) == LET keep(f) == ~IsWriteOn(f, path) IN SelectSeq(files, keep)

\* A shrink that keeps the stats of the set it shrinks.
WithFilesStaleStats(cs, nextFiles) == [cs EXCEPT !.files = nextFiles]

\* { ...cs, files: nextFiles, stats: computeStats(nextFiles) }
WithFiles(cs, nextFiles) == [cs EXCEPT !.files = nextFiles, !.stats = computeStats(nextFiles)]

\* What the handlers set after removing path's write entries: null when no
\* file is left.
WithoutFile(cs, path) ==
  IF Len(FilesWithout(cs.files, path)) = 0 THEN NoCS ELSE WithFiles(cs, FilesWithout(cs.files, path))

\* { ...cs, applied: true }
MarkApplied(cs) == [cs EXCEPT !.applied = TRUE]

\* The edits acceptFileChange applies for one path: its write, patch and
\* delete edits.
FileEdits(cs, path) ==
  LET on(e) == e.op \in {"write", "patch", "delete"} /\ TrimmedOrEmpty(e.path) = path
  IN  SelectSeq(cs.edits, on)

\* s.split(sep) for a separator of several characters
RECURSIVE SplitStr(_, _, _)
SplitStr(s, sep, cur) ==
  IF Len(s) = 0 THEN <<cur>>
  ELSE IF StartsWith(s, sep) THEN <<cur>> \o SplitStr(Slice(s, Len(sep)), sep, <<>>)
  ELSE SplitStr(Tail(s), sep, Append(cur, s[1]))

\* The inverse edits of one ChangeFile in rejectAllChanges (none, or one).
InverseOf(f) ==
  IF f.kind = "write"
  THEN (IF f.before = Null THEN <<EditDelete(f.path)>> ELSE <<EditWrite(f.path, f.before)>>)
  ELSE IF f.kind = "delete"
  THEN (IF f.before # Null THEN <<EditWrite(f.path, f.before)>> ELSE <<>>)
  ELSE LET parts == SplitStr(f.path, Arrow, <<>>)
       IN  IF Len(parts) = 2 THEN <<EditRename(parts[2], parts[1])>> ELSE <<>>

\* The reverse list of rejectAllChanges: the inverses, last file first.
RECURSIVE ReverseEdits(_, _)
ReverseEdits(files, i) ==
  IF i < 1 THEN <<>> ELSE InverseOf(files[i]) \o ReverseEdits(files, i - 1)

(***************************************************************************)
(* tryParseEditsFromAssistantOutput.  JSON.parse is modelled on strings,   *)
(* arrays, objects and the literals true, false and null; numbers and the  *)
(* \b and \u escapes do not occur in the texts it is applied to here.  A   *)
(* JSON value is a record of one shape: type, s (the text of a string),    *)
(* items (of an array), keys and vals (of an object).                      *)
(***************************************************************************)

JVal(type, s, items, keys, vals) ==
  [type |-> type, s |-> s, items |-> items, keys |-> keys, vals |-> vals]

\* null, and what tryParse returns when JSON.parse throws
JNull == JVal("null", <<>>, <<>>, <<>>, <<>>)

JString(s) == JVal("string", s, <<>>, <<>>, <<>>)

JArray(items) == JVal("array", <<>>, items, <<>>, <<>>)

JObject(keys, vals) == JVal("object", <<>>, <<>>, keys, vals)

JBool(b) == JVal(IF b THEN "true" ELSE "false", <<>>, <<>>, <<>>, <<>>)

\* The outcome of parsing one value: pos is the index after it.
JOk(val, pos) == [ok |-> TRUE, val |-> val, pos |-> pos]

JFail == [ok |-> FALSE, val |-> JNull, pos |-> 0]

\* The character an escape sequence stands for, "" when it is not modelled.
Unescape(c) ==
  IF c \in {"\"", "\\", "/"} THEN c
  ELSE IF c = "n" THEN "\n"
  ELSE IF c = "t" THEN "\t"
  ELSE IF c = "r" THEN "\r"
  ELSE ""

\* The first index >= i (1-based) of s whose character is in the class,
\* Len(s) + 1 when there is none.
FirstIn(s, class, i) ==
  IF \E j \in i..Len(s) : s[j] \in class
  THEN CHOOSE j \in i..Len(s) : s[j] \in class /\ \A k \in i..(j - 1) : s[k] \notin class
  ELSE Len(s) + 1

RECURSIVE JsonString(_, _, _)
\* A string from the index p after its opening quote, after the text acc:
\* the characters up to the next quote, backslash or control character are
\* taken as they are.
JsonString(t, p, acc) ==
  LET To(q) ==
        IF q > Len(t) THEN JFail
        ELSE IF t[q] = "\"" THEN JOk(JString(acc \o SubSeq(t, p, q - 1)), q + 1)
        ELSE IF t[q] = "\\"
        THEN (IF Unescape(CharAt(t, q)) = "" THEN JFail
              ELSE JsonString(t, q + 2, (acc \o SubSeq(t, p, q - 1)) \o <<Unescape(CharAt(t, q))>>))
        ELSE JFail
  IN  To(FirstIn(t, {"\"", "\\", "\n", "\t", "\r"}, p))

RECURSIVE JsonValue(_, _)
RECURSIVE JsonItems(_, _, _)
RECURSIVE JsonMembers(_, _, _, _)

\* The value that starts at the first index >= p0 that is not white space.
JsonValue(t, p0) ==
  LET At1(p) ==
        IF p > Len(t) THEN JFail
        ELSE IF t[p] = "\"" THEN JsonString(t, p + 1, <<>>)
        ELSE IF t[p] = "[" THEN
          (IF CharAt(t, SkipClass(t, p + 1, WhiteSpace) - 1) = "]"
           THEN JOk(JArray(<<>>), SkipClass(t, p + 1, WhiteSpace) + 1)
           ELSE JsonItems(t, p + 1, <<>>))
        ELSE IF t[p] = "{" THEN
          (IF CharAt(t, SkipClass(t, p + 1, WhiteSpace) - 1) = "}"
           THEN JOk(JObject(<<>>, <<>>), SkipClass(t, p + 1, WhiteSpace) + 1)
           ELSE JsonMembers(t, p + 1, <<>>, <<>>))
        ELSE IF StartsWith(Slice(t, p - 1), <<"t", "r", "u", "e">>) THEN JOk(JBool(TRUE), p + 4)
        ELSE IF StartsWith(Slice(t, p - 1), <<"f", "a", "l", "s", "e">>)
        THEN JOk(JBool(FALSE), p + 5)
        ELSE IF StartsWith(Slice(t, p - 1), <<"n", "u", "l", "l">>) THEN JOk(JNull, p + 4)
        ELSE JFail
  IN  At1(SkipClass(t, p0, WhiteSpace))

\* The items of an array from index p on, after the items acc.
JsonItems(t, p, acc) ==
  LET After(v, q) ==
        IF CharAt(t, q - 1) = "," THEN JsonItems(t, q + 1, Append(acc, v.val))
        ELSE IF CharAt(t, q - 1) = "]" THEN JOk(JArray(Append(acc, v.val)), q + 1)
        ELSE JFail
      Item(v) == IF ~v.ok THEN JFail ELSE After(v, SkipClass(t, v.pos, WhiteSpace))
  IN  Item(JsonValue(t, p))

\* The members of an object from index p on, after the members keys, vals.
JsonMembers(t, p, keys, vals) ==
  LET After(k, v, q) ==
        IF CharAt(t, q - 1) = ","
        THEN JsonMembers(t, q + 1, Append(keys, k.val.s), Append(vals, v.val))
        ELSE IF CharAt(t, q - 1) = "}"
        THEN JOk(JObject(Append(keys, k.val.s), Append(vals, v.val)), q + 1)
        ELSE JFail
      Member(k, v) == IF ~v.ok THEN JFail ELSE After(k, v, SkipClass(t, v.pos, WhiteSpace))
      Colon(k, q) == IF CharAt(t, q - 1) # ":" THEN JFail ELSE Member(k, JsonValue(t, q + 1))
      Key(k) == IF ~k.ok THEN JFail ELSE Colon(k, SkipClass(t, k.pos, WhiteSpace))
      Quote(q) == IF CharAt(t, q - 1) # "\"" THEN JFail ELSE Key(JsonString(t, q + 1, <<>>))
  IN  Quote(SkipClass(t, p, WhiteSpace))

\* tryParse: JSON.parse(s), or null when it throws (text after the value
\* that is not white space makes it throw).
tryParse(s) ==
  LET Whole(v) ==
        IF v.ok /\ SkipClass(s, v.pos, WhiteSpace) > Len(s) THEN v.val ELSE JNull
  IN  Whole(JsonValue(s, 1))

\* The number of backslashes that end at index j - 1 and start at p or later.
BackslashRun(t, p, j) ==
  IF \E k \in p..(j - 1) : t[k] # "\\"
  THEN j - 1 - (CHOOSE k \in p..(j - 1) : t[k] # "\\" /\ \A m \in (k + 1)..(j - 1) : t[m] = "\\")
  ELSE j - p

\* Where the scans leave a string entered before index p (1-based): the
\* index of the first quote that no backslash escapes (a backslash escapes
\* the character after it, so a quote after an even run of backslashes),
\* Len(t) + 1 when the string is not closed.
StringEnd(t, p) ==
  IF \E j \in p..Len(t) : t[j] = "\"" /\ BackslashRun(t, p, j) % 2 = 0
  THEN CHOOSE j \in p..Len(t) :
         /\ t[j] = "\"" /\ BackslashRun(t, p, j) % 2 = 0
         /\ \A k \in p..(j - 1) : ~(t[k] = "\"" /\ BackslashRun(t, p, k) % 2 = 0)
  ELSE Len(t) + 1

RECURSIVE ScanObject(_, _, _, _)
\* The scan for the first balanced { .. } outside strings, from the 0-based
\* index i outside a string: what tryParse makes of it, null when there is
\* none.  The characters that change nothing are passed over in one step,
\* and so is a string.
ScanObject(t, i, depth, start) ==
  LET At1(j) ==
        IF j > Len(t) THEN JNull
        ELSE IF t[j] = "\"" THEN ScanObject(t, StringEnd(t, j + 1), depth, start)
        ELSE IF t[j] = "{"
        THEN ScanObject(t, j, depth + 1, IF depth = 0 THEN j - 1 ELSE start)
        ELSE IF depth - 1 = 0 /\ start >= 0 THEN tryParse(SubSeq(t, start + 1, j))
        ELSE ScanObject(t, j, depth - 1, start)
  IN  At1(FirstIn(t, {"\"", "{", "}"}, i + 1))

\* The first 1-based index at which sub occurs in t, 0 when it does not.
IndexOfSub(t, sub) ==
  IF Includes(t, sub)
  THEN CHOOSE i \in 1..Len(t) :
         /\ i + Len(sub) - 1 <= Len(t)
         /\ SubSeq(t, i, i + Len(sub) - 1) = sub
         /\ \A j \in 1..(i - 1) : SubSeq(t, j, j + Len(sub) - 1) # sub
  ELSE 0

RECURSIVE ScanArray(_, _, _)
\* The scan of extractEditsArray over s, which starts with "[", from the
\* 0-based index i outside a string: the array that ends at the first "]"
\* that closes it, null when JSON.parse refuses it or it is no array, and
\* null when it is not closed.
ScanArray(s, i, depth) ==
  LET Closed(arr) == IF arr.type = "array" THEN arr ELSE JNull
      At1(j) ==
        IF j > Len(s) THEN JNull
        ELSE IF s[j] = "\"" THEN ScanArray(s, StringEnd(s, j + 1), depth)
        ELSE IF s[j] = "[" THEN ScanArray(s, j, depth + 1)
        ELSE IF depth - 1 = 0 THEN Closed(tryParse(SubSeq(s, 1, j)))
        ELSE ScanArray(s, j, depth - 1)
  IN  At1(FirstIn(s, {"\"", "[", "]"}, i + 1))

StrEdits ==
  <<"\"", "e", "d", "i", "t", "s", "\"">>

\* extractEditsArray: the array after the first "edits", null when there
\* is none.
extractEditsArray(text) ==
  LET From(s) == ScanArray(s, 0, 0)
      After(after) ==
        IF IndexOfFrom(after, "[", 1) = 0 THEN JNull
        ELSE From(Slice(after, IndexOfFrom(after, "[", 1) - 1))
  IN  IF IndexOfSub(text, StrEdits) = 0 THEN JNull
      ELSE After(Slice(text, IndexOfSub(text, StrEdits) - 1))

RECURSIVE LastIndexOfKey(_, _, _)
\* The index of the last member of the object with the key, 0 if none (a
\* repeated key keeps its last value).
LastIndexOfKey(keys, key, i) ==
  IF i < 1 THEN 0 ELSE IF keys[i] = key THEN i ELSE LastIndexOfKey(keys, key, i - 1)

\* obj[key]: the JSON value, or a value of type "undefined".
Field(obj, key) ==
  IF obj.type = "object" /\ LastIndexOfKey(obj.keys, key, Len(obj.keys)) # 0
  THEN obj.vals[LastIndexOfKey(obj.keys, key, Len(obj.keys))]
  ELSE JVal("undefined", <<>>, <<>>, <<>>, <<>>)

StrReady ==
  <<"P", "r", "o", "p", "o", "s", "e", "d", " ", "c", "h", "a", "n", "g", "e", "s", " ",
    "a", "r", "e", " ", "r", "e", "a", "d", "y", ".">>

StrAssistantMessage ==
  <<"a", "s", "s", "i", "s", "t", "a", "n", "t", "_", "m", "e", "s", "s", "a", "g", "e">>

StrSummary ==
  <<"s", "u", "m", "m", "a", "r", "y">>

\* What tryParseEditsFromAssistantOutput returns: null, or the message and
\* the edits (think, plan, verify and done are left out).
NoEdits == [isNull |-> TRUE, message |-> <<>>, edits |-> <<>>]

ParsedEdits(message, edits) == [isNull |-> FALSE, message |-> message, edits |-> edits]

\* The message of a parsed object: assistant_message, else summary, else
\* the default, trimmed.
MessageOf(obj) ==
  IF Field(obj, StrAssistantMessage).type = "string"
  THEN Trim(Field(obj, StrAssistantMessage).s)
  ELSE IF Field(obj, StrSummary).type = "string" THEN Trim(Field(obj, StrSummary).s)
  ELSE StrReady

tryParseEditsFromAssistantOutput(raw) ==
  LET Fallback(fallbackEdits) ==
        IF fallbackEdits.type = "array" /\ Len(fallbackEdits.items) > 0
        THEN ParsedEdits(StrReady, fallbackEdits.items)
        ELSE NoEdits
      Use(t, parsed) ==
        IF parsed.type \in {"object", "array"} /\ Field(parsed, StrEdits).type = "array"
        THEN ParsedEdits(MessageOf(parsed), Field(parsed, StrEdits).items)
        ELSE Fallback(extractEditsArray(t))
      Direct(t, direct) ==
        Use(t, IF direct.type # "null" THEN direct
               ELSE ScanObject(t, 0, 0, -1))
      Trimmed(t) == IF Len(t) = 0 THEN NoEdits ELSE Direct(t, tryParse(t))
  IN  Trimmed(Trim(raw))

(***************************************************************************)
(* Bounds and inputs of the controller model.                              *)
(***************************************************************************)

\* The number of chat messages the user sends.
MaxChats == 2

\* The number of apply / revert flows that can be in flight at once.
MaxFlows == 2

\* The number of I/O errors the workspace capability raises.
MaxIoFailures == 1

PathA == <<"a">>

PathB == <<"b">>

TextX == <<"x">>

TextY == <<"y">>

\* A unified diff turning the one-line text x into y.
PatchXY == <<"@", "@", " ", "-", "1", " ", "+", "1", " ", "@", "@", "\n", "-", "x", "\n", "+", "y">>

\* workspace.root
WorkspaceRoot == <<"/", "w">>

\* The edit lists the assistant answers with (AiChatResult.edits).
Responses ==
  { <<EditWrite(PathA, TextY), EditWrite(PathB, TextY)>>,
    <<EditWrite(<<".", "/", "a">>, TextY), EditPatch(PathA, PatchXY)>> }

\* The workspace the model starts from: a holds x.
InitialDisk == [p \in {PathA} |-> TextX]

(***************************************************************************)
(* State.                                                                  *)
(***************************************************************************)

VARIABLES
  disk,          \* the workspace: path -> content of the files that exist
  tabs,          \* the editor tabs: a sequence of [path, content]
  changeSet,     \* activeChat.changeSet (NoCS for null)
  chatApplying,  \* the busy gate of the review controls
  selectedChangePath,  \* the write file selected in the review bar (Null for none)
  chatBusy,      \* the busy flag of the send button
  chat,          \* the sendChat call in flight
  flows,         \* the accept / reject calls in flight, oldest first
  nextId,        \* the id the next ChangeSet gets
  chatsLeft,     \* chat messages the user may still send
  ioFailsLeft,   \* I/O errors the capability may still raise
  runRequests,   \* the run requests handed to the command runner, oldest first
  disk0,         \* history: the workspace at the start
  lastAction,    \* history: the step taken last
  fnArg,         \* the input of the pure function under check
  fnRes,         \* its result
  fnPc           \* "idle" | "ready" | "done"

ctlVars ==
  <<disk, tabs, changeSet, selectedChangePath, chatApplying, chatBusy, chat, flows, nextId,
    chatsLeft, ioFailsLeft, runRequests, disk0, lastAction>>

fnVars == <<fnArg, fnRes, fnPc>>

vars == <<ctlVars, fnVars>>

\* tabs is the tab list the buildChangeSet closure of the call captured.
IdleChat ==
  [phase |-> "idle", edits |-> <<>>, idx |-> 0, files |-> <<>>, seen |-> {}, tabs |-> <<>>]

NoAction == [name |-> "none", id |-> 0, path |-> <<>>, n |-> 0]

Did(name, id, path, n) == lastAction' = [name |-> name, id |-> id, path |-> path, n |-> n]

InitCtl(d, chats, fails) ==
  /\ disk = d
  /\ tabs = <<>>
  /\ changeSet = NoCS
  /\ selectedChangePath = Null
  /\ chatApplying = FALSE
  /\ chatBusy = FALSE
  /\ chat = IdleChat
  /\ flows = <<>>
  /\ nextId = 1
  /\ chatsLeft = chats
  /\ ioFailsLeft = fails
  /\ runRequests = <<>>
  /\ disk0 = d
  /\ lastAction = NoAction

InitFnIdle == fnArg = <<>> /\ fnRes = <<>> /\ fnPc = "idle"

Init == InitCtl(InitialDisk, MaxChats, MaxIoFailures) /\ InitFnIdle

HasFreeSlot == Len(flows) < MaxFlows

StartFlow(kind, cs, todo, path) ==
  flows' = Append(flows, [kind |-> kind, cs |-> cs, todo |-> todo, performed |-> 0,
                          runs |-> <<>>, path |-> path])

EndFlow(i) == flows' = [k \in 1..(Len(flows) - 1) |-> IF k < i THEN flows[k] ELSE flows[k + 1]]

\* The review controls are rendered for a live ChangeSet and disabled while
\* chatApplying is set (disabled={chatApplying}).
ControlsEnabled == changeSet # NoCS /\ ~chatApplying

\* The paths that carry per-file Accept / Revert buttons: the write entries.
WritePaths(cs) == {cs.files[i].path : i \in {j \in 1..Len(cs.files) : cs.files[j].kind = "write"}}

\* The first write file of the built set, "" when it has none.
FirstWritePath(files) ==
  LET isWrite(f) == f.kind = "write"
      ws == SelectSeq(files, isWrite)
  IN  IF Len(ws) = 0 THEN <<>> ELSE ws[1].path

\* selectedChangePath once the selection effect has run on the live set cs:
\* null without a live set, kept when the set has no write file or has a
\* write file on it, else the first write file.
Selection(cs, sel) ==
  IF cs = NoCS THEN Null
  ELSE IF WritePaths(cs) = {} \/ sel \in WritePaths(cs) THEN sel
  ELSE FirstWritePath(cs.files)

\* The render after a handler left the live set cs, the selection sel and
\* the tabs t on workspace d: the selection effect selects the first write
\* file, and opens it, when the selected path is not a write file of cs.
Render(cs, sel, t, d) ==
  /\ selectedChangePath' = Selection(cs, sel)
  /\ tabs' = IF cs # NoCS /\ Selection(cs, sel) # sel
             THEN openFile(t, d, Selection(cs, sel))
             ELSE t

(***************************************************************************)
(* sendChat                                                                *)
(***************************************************************************)

\* The user sends a message: the request to the assistant is in flight.
SendChat ==
  /\ ~chatBusy /\ chat.phase = "idle" /\ chatsLeft > 0
  /\ chatBusy' = TRUE
  /\ chat' = [IdleChat EXCEPT !.phase = "waiting", !.tabs = tabs]
  /\ chatsLeft' = chatsLeft - 1
  /\ Did("SendChat", 0, <<>>, 0)
  /\ UNCHANGED <<selectedChangePath, disk, tabs, changeSet, chatApplying, flows, nextId,
                 ioFailsLeft, disk0, runRequests, fnVars>>

\* The assistant answers without edits.
ChatResponseNoEdits ==
  /\ chat.phase = "waiting"
  /\ chat' = IdleChat
  /\ chatBusy' = FALSE
  /\ Did("ChatResponseNoEdits", 0, <<>>, 0)
  /\ UNCHANGED <<selectedChangePath, disk, tabs, changeSet, chatApplying, flows, nextId,
                 chatsLeft, ioFailsLeft, disk0, runRequests, fnVars>>

\* The assistant answers with edits: the gate is set, the edits normalized
\* and buildChangeSet started.
ChatResponseWith(responses) ==
  /\ chat.phase = "waiting"
  /\ \E edits \in responses :
       chat' = [chat EXCEPT !.phase = "building",
                                !.edits = normalizeAiEdits(edits, WorkspaceRoot).edits,
                                !.idx = 1]
  /\ chatApplying' = TRUE
  /\ Did("ChatResponseEdits", 0, <<>>, 0)
  /\ UNCHANGED <<selectedChangePath, disk, tabs, changeSet, chatBusy, flows, nextId, chatsLeft,
                 ioFailsLeft, disk0, runRequests, fnVars>>

ChatResponseEdits == ChatResponseWith(Responses)

\* One iteration of buildChangeSet's loop.
ChatBuildStep ==
  /\ chat.phase = "building" /\ chat.idx <= Len(chat.edits)
  /\ LET Built(r) ==
           /\ r.ok
           /\ chat' = [chat EXCEPT !.idx = chat.idx + 1, !.files = r.files, !.seen = r.seen]
     IN  Built(BuildEdit(chat.edits[chat.idx], chat.files, chat.seen, chat.tabs, disk))
  /\ Did("ChatBuildStep", 0, <<>>, 0)
  /\ UNCHANGED <<selectedChangePath, disk, tabs, changeSet, chatApplying, chatBusy, flows,
                 nextId, chatsLeft, ioFailsLeft, disk0, runRequests, fnVars>>

\* A failing build that leaves the files built so far as the live set.
ChatBuildFailKeepsPartial ==
  /\ chat.phase = "building" /\ chat.idx <= Len(chat.edits)
  /\ ~BuildEdit(chat.edits[chat.idx], chat.files, chat.seen, chat.tabs, disk).ok
  /\ chat' = IdleChat
  /\ chatApplying' = FALSE
  /\ chatBusy' = FALSE
  /\ changeSet' = NewChangeSet(nextId, chat.edits, chat.files)
  /\ Did("ChatBuildFail", 0, <<>>, 0)
  /\ UNCHANGED <<selectedChangePath, disk, tabs, flows, nextId, chatsLeft, ioFailsLeft, disk0,
                 runRequests, fnVars>>

\* A patch of the build does not apply: buildChangeSet throws, the finally
\* clears the gate and sendChat's catch reports the error.
ChatBuildFail ==
  /\ chat.phase = "building" /\ chat.idx <= Len(chat.edits)
  /\ ~BuildEdit(chat.edits[chat.idx], chat.files, chat.seen, chat.tabs, disk).ok
  /\ chat' = IdleChat
  /\ chatApplying' = FALSE
  /\ chatBusy' = FALSE
  /\ Did("ChatBuildFail", 0, <<>>, 0)
  /\ UNCHANGED <<selectedChangePath, disk, tabs, changeSet, flows, nextId, chatsLeft,
                 ioFailsLeft, disk0, runRequests, fnVars>>

\* buildChangeSet returns and the new ChangeSet becomes the live one.
ChatBuildDone ==
  /\ chat.phase = "building" /\ chat.idx > Len(chat.edits)
  /\ changeSet' = NewChangeSet(nextId, chat.edits, chat.files)
  /\ nextId' = nextId + 1
  /\ chat' = [chat EXCEPT !.phase = "proposed"]
  /\ Did("ChatBuildDone", nextId, <<>>, 0)
  /\ Render(changeSet',
            IF Len(FirstWritePath(chat.files)) = 0 THEN selectedChangePath
            ELSE FirstWritePath(chat.files),
            tabs, disk)
  /\ UNCHANGED <<disk, chatApplying, chatBusy, flows, chatsLeft, ioFailsLeft, disk0,
                 runRequests, fnVars>>

\* The first written file is opened, the proposal posted, and the finally
\* blocks clear the gate and the busy flag.
ChatFinish ==
  /\ chat.phase = "proposed"
  /\ tabs' = openFile(tabs, disk, FirstWritePath(chat.files))
  /\ chat' = IdleChat
  /\ chatApplying' = FALSE
  /\ chatBusy' = FALSE
  /\ Did("ChatFinish", 0, <<>>, 0)
  /\ UNCHANGED <<selectedChangePath, disk, changeSet, flows, nextId, chatsLeft, ioFailsLeft,
                 disk0, runRequests, fnVars>>

(***************************************************************************)
(* acceptAllChanges, rejectAllChanges                                      *)
(***************************************************************************)

\* An accept-all that applies the edits of an Applied set once more.
AcceptAllReapplies ==
  /\ ControlsEnabled /\ changeSet.applied /\ HasFreeSlot
  /\ chatApplying' = TRUE
  /\ StartFlow("acceptAll", changeSet, changeSet.edits, <<>>)
  /\ Did("AcceptAllRetire", changeSet.id, <<>>, 0)
  /\ UNCHANGED <<selectedChangePath, disk, tabs, changeSet, chatBusy, chat, nextId, chatsLeft,
                 ioFailsLeft, disk0, runRequests, fnVars>>

\* Accept all on an Applied set: the set is retired.
AcceptAllRetire ==
  /\ ControlsEnabled /\ changeSet.applied
  /\ changeSet' = NoCS
  /\ Did("AcceptAllRetire", changeSet.id, <<>>, 0)
  /\ Render(changeSet', selectedChangePath, tabs, disk)
  /\ UNCHANGED <<disk, chatApplying, chatBusy, chat, flows, nextId, chatsLeft, ioFailsLeft,
                 disk0, runRequests, fnVars>>

\* Accept all on a Proposed set, with the confirmation declined.
AcceptAllDeclined ==
  /\ ControlsEnabled /\ ~changeSet.applied /\ NeedsConfirm(changeSet)
  /\ Did("AcceptAllDeclined", changeSet.id, <<>>, 0)
  /\ UNCHANGED <<selectedChangePath, disk, tabs, changeSet, chatApplying, chatBusy, chat, flows,
                 nextId, chatsLeft, ioFailsLeft, disk0, runRequests, fnVars>>

\* Accept all on a Proposed set, confirmed where confirmation is asked: the
\* gate is set and applyAiEditsNow(cs.edits) started.  The step records 1
\* when confirmApplyChangeSet showed its dialog, 0 when it had no reason to.
AcceptAllStart ==
  /\ ControlsEnabled /\ ~changeSet.applied /\ HasFreeSlot
  /\ chatApplying' = TRUE
  /\ StartFlow("acceptAll", changeSet, changeSet.edits, <<>>)
  /\ Did("AcceptAllStart", changeSet.id, <<>>, IF NeedsConfirm(changeSet) THEN 1 ELSE 0)
  /\ UNCHANGED <<selectedChangePath, disk, tabs, changeSet, chatBusy, chat, nextId, chatsLeft,
                 ioFailsLeft, disk0, runRequests, fnVars>>

\* A reject-all that runs the reverse edits of a Proposed set.
RejectAllDiscardReverts ==
  /\ ControlsEnabled /\ ~changeSet.applied /\ HasFreeSlot
  /\ chatApplying' = TRUE
  /\ StartFlow("rejectAll", changeSet, ReverseEdits(changeSet.files, Len(changeSet.files)), <<>>)
  /\ Did("RejectAllDiscard", changeSet.id, <<>>, 0)
  /\ UNCHANGED <<selectedChangePath, disk, tabs, changeSet, chatBusy, chat, nextId, chatsLeft,
                 ioFailsLeft, disk0, runRequests, fnVars>>

\* Reject all on a Proposed set: the set is discarded.
RejectAllDiscard ==
  /\ ControlsEnabled /\ ~changeSet.applied
  /\ changeSet' = NoCS
  /\ Did("RejectAllDiscard", changeSet.id, <<>>, 0)
  /\ Render(changeSet', selectedChangePath, tabs, disk)
  /\ UNCHANGED <<disk, chatApplying, chatBusy, chat, flows, nextId, chatsLeft, ioFailsLeft,
                 disk0, runRequests, fnVars>>

\* Reject all on an Applied set: the gate is set and applyAiEditsNow(reverse)
\* started.
RejectAllStart ==
  /\ ControlsEnabled /\ changeSet.applied /\ HasFreeSlot
  /\ chatApplying' = TRUE
  /\ StartFlow("rejectAll", changeSet, ReverseEdits(changeSet.files, Len(changeSet.files)), <<>>)
  /\ Did("RejectAllStart", changeSet.id, <<>>, 0)
  /\ UNCHANGED <<selectedChangePath, disk, tabs, changeSet, chatBusy, chat, nextId, chatsLeft,
                 ioFailsLeft, disk0, runRequests, fnVars>>

IsApplyFlow(i) == flows[i].kind \in {"acceptAll", "rejectAll", "acceptFile"}

\* accept-all and single-file accept pass opts.previewFile, reject-all does not.
Previews(i) == flows[i].kind \in {"acceptAll", "acceptFile"}

\* The outcomes of the next edit of flow i.
NextOutcomes(i) ==
  ApplyEditOutcomes(flows[i].todo[1], disk, tabs, Previews(i), ioFailsLeft > 0)

\* A queue that takes every run command, repeated ones too.
QueuedEvery(runs, cmd) == IF cmd = Null THEN runs ELSE Append(runs, cmd)

\* queuedRuns after a step: a run command is queued once.
Queued(runs, cmd) ==
  IF cmd = Null \/ \E k \in 1..Len(runs) : runs[k] = cmd THEN runs ELSE Append(runs, cmd)

\* The selection after the step: accept-all's previewFile selects the path
\* it is handed.
Shown(i, o) ==
  IF flows[i].kind = "acceptAll" /\ o.shown # Null THEN o.shown ELSE selectedChangePath

\* One iteration of applyAiEditsNow's loop succeeds.
ApplyStepOk(i) ==
  /\ IsApplyFlow(i) /\ Len(flows[i].todo) > 0
  /\ \E o \in NextOutcomes(i) :
       /\ o.ok
       /\ disk' = o.disk
       /\ Render(changeSet, Shown(i, o), o.tabs, o.disk)
       /\ flows' = [flows EXCEPT ![i].todo = Tail(flows[i].todo),
                                 ![i].performed = flows[i].performed + 1,
                                 ![i].runs = Queued(flows[i].runs, o.run)]
  /\ Did("ApplyStepOk", flows[i].cs.id, <<>>, 0)
  /\ UNCHANGED <<changeSet, chatApplying, chatBusy, chat, nextId, chatsLeft, ioFailsLeft, disk0,
                 runRequests, fnVars>>

\* A failing iteration that leaves the gate set.
ApplyStepFailHoldsGate(i) ==
  /\ IsApplyFlow(i) /\ Len(flows[i].todo) > 0
  /\ \E o \in NextOutcomes(i) :
       /\ ~o.ok
       /\ disk' = o.disk
       /\ Render(changeSet, Shown(i, o), o.tabs, o.disk)
       /\ ioFailsLeft' = ioFailsLeft - (IF o.injected THEN 1 ELSE 0)
  /\ EndFlow(i)
  /\ Did(flows[i].kind \o "Fail", flows[i].cs.id, <<>>, flows[i].performed)
  /\ UNCHANGED <<changeSet, chatApplying, chatBusy, chat, nextId, chatsLeft, disk0, runRequests,
                 fnVars>>

\* One iteration throws: the handler's finally clears the gate, and the live
\* ChangeSet is left as it is.
ApplyStepFail(i) ==
  /\ IsApplyFlow(i) /\ Len(flows[i].todo) > 0
  /\ \E o \in NextOutcomes(i) :
       /\ ~o.ok
       /\ disk' = o.disk
       /\ Render(changeSet, Shown(i, o), o.tabs, o.disk)
       /\ ioFailsLeft' = ioFailsLeft - (IF o.injected THEN 1 ELSE 0)
  /\ EndFlow(i)
  /\ chatApplying' = FALSE
  /\ Did(flows[i].kind \o "Fail", flows[i].cs.id, <<>>, flows[i].performed)
  /\ UNCHANGED <<changeSet, chatBusy, chat, nextId, chatsLeft, disk0, runRequests, fnVars>>

\* What applyAiEditsNow does with its queued runs once its loop is through:
\* pushRunRequest(queuedRuns[0], queuedRuns.slice(1)) when there is one.
PushRuns(requests, runs) == IF Len(runs) > 0 THEN Append(requests, runs) ELSE requests

\* applyAiEditsNow(cs.edits) returned, its queued runs handed over: the
\* captured set is stored as applied.
AcceptAllFinish(i) ==
  /\ flows[i].kind = "acceptAll" /\ Len(flows[i].todo) = 0
  /\ runRequests' = PushRuns(runRequests, flows[i].runs)
  /\ changeSet' = MarkApplied(flows[i].cs)
  /\ EndFlow(i)
  /\ chatApplying' = FALSE
  /\ Did("AcceptAllFinish", flows[i].cs.id, <<>>, flows[i].performed)
  /\ Render(changeSet', selectedChangePath, tabs, disk)
  /\ UNCHANGED <<disk, chatBusy, chat, nextId, chatsLeft, ioFailsLeft, disk0, fnVars>>

\* applyAiEditsNow(reverse) returned: the live set is cleared.
RejectAllFinish(i) ==
  /\ flows[i].kind = "rejectAll" /\ Len(flows[i].todo) = 0
  /\ changeSet' = NoCS
  /\ EndFlow(i)
  /\ chatApplying' = FALSE
  /\ Did("RejectAllFinish", flows[i].cs.id, <<>>, flows[i].performed)
  /\ Render(changeSet', selectedChangePath, tabs, disk)
  /\ UNCHANGED <<disk, chatBusy, chat, nextId, chatsLeft, ioFailsLeft, disk0, runRequests, fnVars>>

(***************************************************************************)
(* acceptFileChange, rejectFileChange                                      *)
(***************************************************************************)

\* Accept of one file on a Proposed set: the gate is set and the file's
\* edits applied (when the set holds no edit for the path, the file's entry
\* is only dropped).
AcceptFileStart ==
  /\ ControlsEnabled /\ ~changeSet.applied /\ HasFreeSlot
  /\ \E path \in WritePaths(changeSet) :
       IF Len(FileEdits(changeSet, path)) = 0
       THEN /\ changeSet' = WithoutFile(changeSet, path)
            /\ Did("AcceptFileDrop", changeSet.id, path, 0)
            /\ UNCHANGED <<chatApplying, flows>>
       ELSE /\ chatApplying' = TRUE
            /\ StartFlow("acceptFile", changeSet, FileEdits(changeSet, path), path)
            /\ Did("AcceptFileStart", changeSet.id, path, 0)
            /\ UNCHANGED changeSet
  /\ Render(changeSet', selectedChangePath, tabs, disk)
  /\ UNCHANGED <<disk, chatBusy, chat, nextId, chatsLeft, ioFailsLeft, disk0, runRequests, fnVars>>

\* The file's edits are applied: the gate is cleared and the whole captured
\* set stored as applied.
AcceptFileFinish(i) ==
  /\ flows[i].kind = "acceptFile" /\ Len(flows[i].todo) = 0
  /\ changeSet' = MarkApplied(flows[i].cs)
  /\ EndFlow(i)
  /\ chatApplying' = FALSE
  /\ Did("AcceptFileFinish", flows[i].cs.id, flows[i].path, flows[i].performed)
  /\ Render(changeSet', selectedChangePath, tabs, disk)
  /\ UNCHANGED <<disk, chatBusy, chat, nextId, chatsLeft, ioFailsLeft, disk0, runRequests, fnVars>>

\* Accept of one file on an Applied set: the file's entry is dropped.
AcceptFileApplied ==
  /\ ControlsEnabled /\ changeSet.applied
  /\ \E path \in WritePaths(changeSet) :
       /\ changeSet' = WithoutFile(changeSet, path)
       /\ Did("AcceptFileApplied", changeSet.id, path, 0)
  /\ Render(changeSet', selectedChangePath, tabs, disk)
  /\ UNCHANGED <<disk, chatApplying, chatBusy, chat, flows, nextId, chatsLeft, ioFailsLeft,
                 disk0, runRequests, fnVars>>

\* Reject of one file on a Proposed set: the file's entry is dropped.
RejectFileProposed ==
  /\ ControlsEnabled /\ ~changeSet.applied
  /\ \E path \in WritePaths(changeSet) :
       /\ changeSet' = WithoutFile(changeSet, path)
       /\ Did("RejectFileProposed", changeSet.id, path, 0)
  /\ Render(changeSet', selectedChangePath, tabs, disk)
  /\ UNCHANGED <<disk, chatApplying, chatBusy, chat, flows, nextId, chatsLeft, ioFailsLeft,
                 disk0, runRequests, fnVars>>

\* Reject of one file on an Applied set: the gate is set and the restore of
\* the file started.
RejectFileStart ==
  /\ ControlsEnabled /\ changeSet.applied /\ HasFreeSlot
  /\ \E path \in WritePaths(changeSet) :
       /\ StartFlow("rejectFile", changeSet, <<>>, path)
       /\ Did("RejectFileStart", changeSet.id, path, 0)
  /\ chatApplying' = TRUE
  /\ UNCHANGED <<selectedChangePath, disk, tabs, changeSet, chatBusy, chat, nextId, chatsLeft,
                 ioFailsLeft, disk0, runRequests, fnVars>>

\* A write file is picked in the change list or with the previous / next
\* buttons of the review bar: it is selected and opened.
SelectChangeFile ==
  /\ changeSet # NoCS
  /\ \E path \in WritePaths(changeSet) \ {selectedChangePath} :
       /\ selectedChangePath' = path
       /\ tabs' = openFile(tabs, disk, path)
       /\ Did("SelectChangeFile", changeSet.id, path, 0)
  /\ UNCHANGED <<disk, changeSet, chatApplying, chatBusy, chat, flows, nextId, chatsLeft,
                 ioFailsLeft, disk0, runRequests, fnVars>>

\* The first write entry on the path: cs.files.find(...)
FindWrite(cs, path) ==
  LET on(f) == IsWriteOn(f, path) IN SelectSeq(cs.files, on)[1]

\* A restore that deletes the file whatever it held before.
RestoreByDelete(f, d, t, mayFail) ==
  {StepOut(io, IF io.ok THEN TabsRemove(t, f.path) ELSE t, Null, Null) :
     io \in workspaceDelete(d, f.path, mayFail)}

\* The restore of rejectFileChange: the file is deleted when it did not
\* exist before, else its before text is written back.
RestoreOutcomes(f, d, t, mayFail) ==
  IF f.before = Null
  THEN {StepOut(io, IF io.ok THEN TabsRemove(t, f.path) ELSE t, Null, Null) :
          io \in workspaceDelete(d, f.path, mayFail)}
  ELSE {StepOut(io, IF io.ok THEN TabsSetContent(t, f.path, f.before) ELSE t, Null, Null) :
          io \in workspaceWriteFile(d, f.path, f.before, mayFail)}

\* The restore succeeded: the file's entry is dropped from the captured set.
RejectFileDone(i) ==
  /\ flows[i].kind = "rejectFile"
  /\ \E o \in RestoreOutcomes(FindWrite(flows[i].cs, flows[i].path), disk, tabs, ioFailsLeft > 0) :
       /\ o.ok
       /\ disk' = o.disk
       /\ Render(WithoutFile(flows[i].cs, flows[i].path), selectedChangePath, o.tabs,
                 o.disk)
  /\ changeSet' = WithoutFile(flows[i].cs, flows[i].path)
  /\ EndFlow(i)
  /\ chatApplying' = FALSE
  /\ Did("RejectFileDone", flows[i].cs.id, flows[i].path, 1)
  /\ UNCHANGED <<chatBusy, chat, nextId, chatsLeft, ioFailsLeft, disk0, runRequests, fnVars>>

\* The restore failed: the error is reported and the gate cleared.
RejectFileFail(i) ==
  /\ flows[i].kind = "rejectFile"
  /\ \E o \in RestoreOutcomes(FindWrite(flows[i].cs, flows[i].path), disk, tabs, ioFailsLeft > 0) :
       /\ ~o.ok
       /\ disk' = o.disk
       /\ tabs' = o.tabs
       /\ ioFailsLeft' = ioFailsLeft - (IF o.injected THEN 1 ELSE 0)
  /\ EndFlow(i)
  /\ chatApplying' = FALSE
  /\ Did("RejectFileFail", flows[i].cs.id, flows[i].path, 0)
  /\ UNCHANGED <<selectedChangePath, changeSet, chatBusy, chat, nextId, chatsLeft, disk0,
                 runRequests, fnVars>>

Next ==
  \/ SendChat
  \/ ChatResponseNoEdits
  \/ ChatResponseEdits
  \/ ChatBuildStep
  \/ ChatBuildFail
  \/ ChatBuildDone
  \/ ChatFinish
  \/ SelectChangeFile
  \/ AcceptAllRetire
  \/ AcceptAllDeclined
  \/ AcceptAllStart
  \/ RejectAllDiscard
  \/ RejectAllStart
  \/ AcceptFileStart
  \/ AcceptFileApplied
  \/ RejectFileProposed
  \/ RejectFileStart
  \/ \E i \in 1..Len(flows) : ApplyStepOk(i)
  \/ \E i \in 1..Len(flows) : ApplyStepFail(i)
  \/ \E i \in 1..Len(flows) : AcceptAllFinish(i)
  \/ \E i \in 1..Len(flows) : RejectAllFinish(i)
  \/ \E i \in 1..Len(flows) : AcceptFileFinish(i)
  \/ \E i \in 1..Len(flows) : RejectFileDone(i)
  \/ \E i \in 1..Len(flows) : RejectFileFail(i)

Spec == Init /\ [][Next]_vars

(***************************************************************************)
(* Accept-all followed by reject-all, with nothing else touching the       *)
(* workspace: one chat message, no I/O error, accept-all only on the       *)
(* workspace the set was built against.                                    *)
(***************************************************************************)

\* The workspaces the chat is sent in: a and b each hold x or do not exist.
InitialDisks == {[p \in S |-> TextX] : S \in SUBSET {PathA, PathB}}

\* The edit lists of the answer: writes, patches, deletes and renames,
\* several of them on one path.
RevertResponses ==
  Responses \cup
  { <<EditRename(PathA, PathB), EditWrite(PathB, TextY)>>,
    <<EditPatch(PathA, PatchXY)>>,
    <<EditDelete(PathA)>>,
    <<EditDelete(PathA), EditWrite(PathA, TextY)>>,
    <<EditWrite(PathA, TextY), EditWrite(PathA, TextX)>>,
    <<EditWrite(PathB, TextY), EditRename(PathB, PathA)>> }

InitRevert == (\E d \in InitialDisks : InitCtl(d, 1, 0)) /\ InitFnIdle

RevertResponse == ChatResponseWith(RevertResponses)

RevertAcceptAll == disk = disk0 /\ AcceptAllStart

NextRevert ==
  \/ SendChat
  \/ RevertResponse
  \/ ChatBuildStep
  \/ ChatBuildFail
  \/ ChatBuildDone
  \/ ChatFinish
  \/ RevertAcceptAll
  \/ RejectAllStart
  \/ \E i \in 1..Len(flows) : ApplyStepOk(i)
  \/ \E i \in 1..Len(flows) : ApplyStepFail(i)
  \/ \E i \in 1..Len(flows) : AcceptAllFinish(i)
  \/ \E i \in 1..Len(flows) : RejectAllFinish(i)

SpecRevert == InitRevert /\ [][NextRevert]_vars

(***************************************************************************)
(* The pure functions, each applied to inputs drawn from a bounded set.    *)
(***************************************************************************)

\* The longest raw path handed to the normalizer.
MaxPathLen == 4

\* The longest text handed to the differ and to the patch applier.
MaxTextLen == 3

RECURSIVE StringsUpTo(_, _)
\* The strings over the alphabet of at most n characters.
StringsUpTo(alphabet, n) ==
  IF n = 0 THEN {<<>>}
  ELSE LET shorter == StringsUpTo(alphabet, n - 1)
       IN  shorter \cup {Append(w, c) : w \in shorter, c \in alphabet}

RawPaths == StringsUpTo({"a", "/", ".", "\\", ":"}, MaxPathLen)

Roots == {WorkspaceRoot, <<"a">>}

Texts == StringsUpTo({"a", "b", "\n"}, MaxTextLen)

InitFn(args) ==
  /\ InitCtl(InitialDisk, 0, 0)
  /\ fnArg \in args
  /\ fnRes = <<>>
  /\ fnPc = "ready"

\* The one-edit lists the raw path is put into: as a path, a from and a to.
EditShapes == {"write", "renameFrom", "renameTo"}

EditOfShape(shape, raw) ==
  IF shape = "write" THEN EditWrite(raw, TextY)
  ELSE IF shape = "renameFrom" THEN EditRename(raw, PathB)
  ELSE EditRename(PathB, raw)

InitSanitize == InitFn([raw : RawPaths, root : Roots, shape : EditShapes])

NormalizeCall ==
  /\ fnPc = "ready"
  /\ fnRes' = normalizeAiEdits(<<EditOfShape(fnArg.shape, fnArg.raw)>>, fnArg.root)
  /\ fnPc' = "done"
  /\ UNCHANGED <<ctlVars, fnArg>>

SpecSanitize == InitSanitize /\ [][NormalizeCall]_vars

InitDiff == InitFn([before : Texts, after : Texts])

DiffCall ==
  /\ fnPc = "ready"
  /\ fnRes' = diffLines(fnArg.before, fnArg.after)
  /\ fnPc' = "done"
  /\ UNCHANGED <<ctlVars, fnArg>>

SpecDiff == InitDiff /\ [][DiffCall]_vars

(***************************************************************************)
(* A standard differ: the output of diff -u on two texts short enough for  *)
(* the three lines of context to cover them, so that the diff is one hunk  *)
(* over the whole of both.                                                 *)
(***************************************************************************)

\* The lines of a text as diff reads it: the text of each line and whether
\* a newline ends it (all but the last line always are).
FileLines(text) ==
  LET parts == Split(text, "\n")
      n     == Len(parts)
  IN  IF Len(parts[n]) = 0
      THEN [i \in 1..(n - 1) |-> [text |-> parts[i], eol |-> TRUE]]
      ELSE [i \in 1..n |-> [text |-> parts[i], eol |-> i < n]]

RECURSIVE LcsLen(_, _)
\* The length of a longest common subsequence.
LcsLen(a, b) ==
  IF Len(a) = 0 \/ Len(b) = 0 THEN 0
  ELSE IF a[1] = b[1] THEN 1 + LcsLen(Tail(a), Tail(b))
  ELSE Max2(LcsLen(Tail(a), b), LcsLen(a, Tail(b)))

RECURSIVE EditScript(_, _)
\* A shortest edit script, deletions before insertions in each change.
EditScript(a, b) ==
  IF Len(a) = 0 /\ Len(b) = 0 THEN <<>>
  ELSE IF Len(a) > 0 /\ Len(b) > 0 /\ a[1] = b[1]
  THEN <<[sign |-> " ", line |-> a[1]]>> \o EditScript(Tail(a), Tail(b))
  ELSE IF Len(b) = 0 \/ (Len(a) > 0 /\ LcsLen(Tail(a), b) >= LcsLen(a, Tail(b)))
  THEN <<[sign |-> "-", line |-> a[1]]>> \o EditScript(Tail(a), b)
  ELSE <<[sign |-> "+", line |-> b[1]]>> \o EditScript(a, Tail(b))

DigitChars == <<"0", "1", "2", "3", "4", "5", "6", "7", "8", "9">>

\* The range of a hunk header over a whole file of n < 10 lines.
HunkRange(n) ==
  IF n = 0 THEN <<"0", ",", "0">>
  ELSE IF n = 1 THEN <<"1">>
  ELSE <<"1", ",", DigitChars[n + 1]>>

RECURSIVE HunkText(_)
\* The lines of the hunk: a line that no newline ends is followed by the
\* marker line.
HunkText(script) ==
  IF Len(script) = 0 THEN <<>>
  ELSE <<script[1].sign>> \o script[1].line.text \o <<"\n">>
       \o (IF script[1].line.eol THEN <<>> ELSE NoNewlineMarker \o <<"\n">>)
       \o HunkText(Tail(script))

FileHeader == <<"-", "-", "-", " ", "a", "\n", "+", "+", "+", " ", "b", "\n">>

\* The unified diff of two different texts.
StandardDiff(before, after) ==
  FileHeader
  \o <<"@", "@", " ", "-">> \o HunkRange(Len(FileLines(before)))
  \o <<" ", "+">> \o HunkRange(Len(FileLines(after))) \o <<" ", "@", "@", "\n">>
  \o HunkText(EditScript(FileLines(before), FileLines(after)))

InitPatch == InitFn({pair \in [before : Texts, after : Texts] : pair.before # pair.after})

PatchCall ==
  /\ fnPc = "ready"
  /\ fnRes' = applyUnifiedDiffToText(fnArg.before, StandardDiff(fnArg.before, fnArg.after))
  /\ fnPc' = "done"
  /\ UNCHANGED <<ctlVars, fnArg>>

SpecPatch == InitPatch /\ [][PatchCall]_vars

(***************************************************************************)
(* The patch applier on hunks written by hand: one hunk of one or two      *)
(* lines, whose context and delete lines may or may not occur in the base. *)
(***************************************************************************)

\* The hunk lines: a sign and the text of the line.
HunkLines == {<<" ", "a">>, <<"-", "a">>, <<" ", "b">>, <<"-", "b">>, <<"+", "a">>}

HunkBodies == {<<l>> : l \in HunkLines} \cup {<<l, k>> : l \in HunkLines, k \in HunkLines}

\* The old start a hunk header declares.
OldStarts == {"1", "2"}

RECURSIVE BodyText(_)
\* Each hunk line on a line of its own, after the header.
BodyText(body) ==
  IF Len(body) = 0 THEN <<>> ELSE <<"\n">> \o body[1] \o BodyText(Tail(body))

\* "@@ -<start> +<start> @@" followed by the hunk lines.
HunkPatch(start, body) ==
  <<"@", "@", " ", "-", start, " ", "+", start, " ", "@", "@">> \o BodyText(body)

InitMismatch == InitFn([before : Texts, start : OldStarts, body : HunkBodies])

MismatchCall ==
  /\ fnPc = "ready"
  /\ fnRes' = applyUnifiedDiffToText(fnArg.before, HunkPatch(fnArg.start, fnArg.body))
  /\ fnPc' = "done"
  /\ UNCHANGED <<ctlVars, fnArg>>

SpecMismatch == InitMismatch /\ [][MismatchCall]_vars

(***************************************************************************)
(* The anchor search: findSequenceStart on every base of at most           *)
(* MaxHayLen lines over A and B, and on the base A, B, C, D, E with the    *)
(* run B, C; and the applier on the hunk whose context lines are the run   *)
(* and whose old start is the preferred index plus one.                    *)
(***************************************************************************)

\* The longest base handed to the anchor search.
MaxHayLen == 4

RECURSIVE LinesUpTo(_, _)
\* The sequences of at most n lines out of the given ones.
LinesUpTo(lines, n) ==
  IF n = 0 THEN {<<>>}
  ELSE LET shorter == LinesUpTo(lines, n - 1)
       IN  shorter \cup {Append(w, l) : w \in shorter, l \in lines}

AnchorInputs ==
  {[hay |-> hay, seq |-> seq, minIndex |-> minIndex, preferredIndex |-> preferredIndex] :
     hay \in LinesUpTo({<<"A">>, <<"B">>}, MaxHayLen), seq \in LinesUpTo({<<"A">>, <<"B">>}, 2),
     minIndex \in 0..MaxHayLen, preferredIndex \in 0..(MaxHayLen + 1)}

\* Base A, B, C, D, E and a hunk declaring old start 1 with context B, C.
AnchorExample ==
  [hay |-> <<<<"A">>, <<"B">>, <<"C">>, <<"D">>, <<"E">>>>, seq |-> <<<<"B">>, <<"C">>>>,
   minIndex |-> 0, preferredIndex |-> 0]

InitAnchor == InitFn({x \in AnchorInputs : x.minIndex <= Len(x.hay)} \cup {AnchorExample})

RECURSIVE ContextLines(_)
\* The run as the context lines of a hunk, each after a newline.
ContextLines(seq) ==
  IF Len(seq) = 0 THEN <<>> ELSE <<"\n", " ">> \o seq[1] \o ContextLines(Tail(seq))

\* "@@ -<start>,<n> +<start>,<n> @@" and the run as context lines.
ContextPatch(start, seq) ==
  LET range == <<DigitChars[start + 1], ",", DigitChars[Len(seq) + 1]>>
  IN  <<"@", "@", " ", "-">> \o range \o <<" ", "+">> \o range \o <<" ", "@", "@">>
      \o ContextLines(seq)

AnchorCall ==
  /\ fnPc = "ready"
  /\ fnRes' = [index |-> findSequenceStart(fnArg.hay, fnArg.seq, fnArg.minIndex,
                                           fnArg.preferredIndex),
               patched |-> applyUnifiedDiffToText(
                             Join(fnArg.hay, <<"\n">>),
                             ContextPatch(fnArg.preferredIndex + 1, fnArg.seq))]
  /\ fnPc' = "done"
  /\ UNCHANGED <<ctlVars, fnArg>>

SpecAnchor == InitAnchor /\ [][AnchorCall]_vars

(***************************************************************************)
(* The review of one answer: the build of its ChangeSet and accept-all on  *)
(* it, for answers with many files, deletes, renames, new files, repeated  *)
(* operations on one path, and no file operation at all.                   *)
(***************************************************************************)

\* Nine files of the workspace: "1" .. "9".
NinePaths == [i \in 1..9 |-> <<DigitChars[i + 1]>>]

NineWrites == [i \in 1..9 |-> EditWrite(NinePaths[i], TextY)]

\* The workspace of the review: a and the nine files hold x, b does not exist.
ReviewDisk == [p \in {PathA} \cup {NinePaths[i] : i \in 1..9} |-> TextX]

ReviewResponses ==
  { NineWrites,
    SubSeq(NineWrites, 1, 8),
    <<EditWrite(PathA, TextY)>>,
    <<EditWrite(PathB, TextY)>>,
    <<EditDelete(PathA)>>,
    <<EditRename(PathA, PathB)>>,
    <<EditWrite(PathA, TextY), EditWrite(PathA, TextX)>>,
    <<EditDelete(PathA), EditDelete(PathA)>>,
    <<EditRun(<<"l", "s">>)>>,
    <<EditWrite(<<" ">>, TextY)>> }

InitReview == InitCtl(ReviewDisk, 1, 1) /\ InitFnIdle

ReviewResponse == ChatResponseWith(ReviewResponses)

NextReview ==
  \/ SendChat
  \/ ReviewResponse
  \/ ChatBuildStep
  \/ ChatBuildDone
  \/ ChatFinish
  \/ AcceptAllDeclined
  \/ AcceptAllStart
  \/ AcceptAllRetire
  \/ RejectAllDiscard
  \/ \E i \in 1..Len(flows) : ApplyStepOk(i)
  \/ \E i \in 1..Len(flows) : ApplyStepFail(i)
  \/ \E i \in 1..Len(flows) : AcceptAllFinish(i)

SpecReview == InitReview /\ [][NextReview]_vars

(***************************************************************************)
(* The recovery of edits from assistant text: the object with one write    *)
(* edit, cut after the edit, followed by every tail of at most             *)
(* MaxTailLen closing brackets, braces and blanks, bare or after prose.    *)
(***************************************************************************)

\* The longest tail after the cut.
MaxTailLen == 3

\* {"edits": [{"op":"write","path":"x.ts","content":"hi"}
TruncatedEdits ==
  <<"{", "\"", "e", "d", "i", "t", "s", "\"", ":", " ", "[", "{", "\"", "o", "p", "\"",
    ":", "\"", "w", "r", "i", "t", "e", "\"", ",", "\"", "p", "a", "t", "h", "\"", ":",
    "\"", "x", ".", "t", "s", "\"", ",", "\"", "c", "o", "n", "t", "e", "n", "t", "\"",
    ":", "\"", "h", "i", "\"", "}">>

RecoverTails == StringsUpTo({"]", "}", " "}, MaxTailLen)

RecoverPrefixes == {<<>>, <<"o", "k", " ">>}

InitRecover == InitFn([prefix : RecoverPrefixes, tail : RecoverTails])

RecoverCall ==
  /\ fnPc = "ready"
  /\ fnRes' = tryParseEditsFromAssistantOutput(fnArg.prefix \o TruncatedEdits \o fnArg.tail)
  /\ fnPc' = "done"
  /\ UNCHANGED <<ctlVars, fnArg>>

SpecRecover == InitRecover /\ [][RecoverCall]_vars

(***************************************************************************)
(* The split of a git diff of two files: one file is modified by one hunk  *)
(* and one is deleted, its block with or without the hunk that removes its *)
(* content, the two blocks in either order.                                *)
(***************************************************************************)

SplitPaths == {<<"f">>, <<"d", "/", "f">>, <<"a", "/", "f">>}

DeletedPaths == {<<"g">>, <<"b", "/", "g">>}

\* The texts of the lines the diff removes or adds.
SplitLineTexts == {<<"x">>, <<"-", "-", " ", "q">>, <<"+", "+", " ", "q">>}

\* The content of the deleted file; Null when its block has no hunk.
DeletedContents == {Null} \cup SplitLineTexts

\* diff --git a/p b/p
DiffGitLine(p) == StrDiffGit \o <<"a", "/">> \o p \o <<" ", "b", "/">> \o p

\* The block of a file whose one line old becomes new.
ModifiedBlock(p, old, new) ==
  << DiffGitLine(p),
     <<"-", "-", "-", " ", "a", "/">> \o p,
     <<"+", "+", "+", " ", "b", "/">> \o p,
     <<"@", "@", " ", "-", "1", " ", "+", "1", " ", "@", "@">>,
     <<"-">> \o old,
     <<"+">> \o new >>

\* The block of a deleted file.
DeletedBlock(p, content) ==
  << DiffGitLine(p),
     StrDeletedFileMode \o <<" ", "1", "0", "0", "6", "4", "4">>,
     <<"-", "-", "-", " ", "a", "/">> \o p,
     <<"+", "+", "+", " ">> \o StrDevNull >>
  \o (IF content = Null THEN <<>>
      ELSE << <<"@", "@", " ", "-", "1", " ", "+", "0", ",", "0", " ", "@", "@">>,
              <<"-">> \o content >>)

\* The diff text of an input: the two blocks, the modified file's first or
\* second.
SplitBlob(in) ==
  LET Text(m, d) ==
        Join(IF in.deletedFirst THEN d \o m ELSE m \o d, <<"\n">>)
  IN  Text(ModifiedBlock(in.path, in.old, in.new), DeletedBlock(in.deleted, in.content))

InitSplit ==
  InitFn([path : SplitPaths, deleted : DeletedPaths, old : SplitLineTexts,
          new : SplitLineTexts, content : DeletedContents, deletedFirst : BOOLEAN])

SplitCall ==
  /\ fnPc = "ready"
  /\ fnRes' = splitMultiFileGitDiffToEdits(SplitBlob(fnArg))
  /\ fnPc' = "done"
  /\ UNCHANGED <<ctlVars, fnArg>>

SpecSplit == InitSplit /\ [][SplitCall]_vars

(***************************************************************************)
(* sanitizePath on paths made of a prefix (none, "./", "../", the          *)
(* workspace root) and a relative tail, under several workspace roots.     *)
(***************************************************************************)

ExamplePrefixes ==
  { <<>>,
    <<".", "/">>,
    <<".", "/", ".", "/">>,
    <<".", ".", "/">>,
    <<".", ".", "/", ".", ".", "/">>,
    <<"/", "a", "b", "s", "/", "r", "o", "o", "t", "/">>,
    <<"/", "a", "b", "s", "/", "r", "o", "o", "t", "/", ".", "/">>,
    <<".", ".", "/", ".", "/">> }

ExampleTails ==
  { <<"e", "t", "c", "/", "p", "a", "s", "s", "w", "d">>,
    <<"s", "r", "c", "/", "a", ".", "t", "s">>,
    <<"a", "/", "b", ".", "t", "s">>,
    <<"x">> }

ExampleRoots ==
  { <<"/", "a", "b", "s", "/", "r", "o", "o", "t">>,
    <<"/", "a", "b", "s", "/", "r", "o", "o", "t", "/">>,
    <<"/", "a", "b", "s">> } \cup {Null}

InitExamples == InitFn([prefix : ExamplePrefixes, tail : ExampleTails, root : ExampleRoots])

SanitizeCall ==
  /\ fnPc = "ready"
  /\ fnRes' = sanitizePath(fnArg.prefix \o fnArg.tail, fnArg.root)
  /\ fnPc' = "done"
  /\ UNCHANGED <<ctlVars, fnArg>>

SpecExamples == InitExamples /\ [][SanitizeCall]_vars

(***************************************************************************)
(* Accept-all of one proposed set whose edits mix runs, some of them       *)
(* repeated or blank, with writes, a patch, deletes and a rename; one I/O  *)
(* error may be raised.                                                    *)
(***************************************************************************)

CmdL == <<"l">>

CmdP == <<"p">>

ApplyResponses ==
  { <<EditRun(CmdL), EditWrite(PathA, TextY), EditRun(CmdL), EditRun(CmdP), EditWrite(PathB, TextY)>>,
    <<EditRename(PathA, PathB), EditWrite(PathA, TextY), EditDelete(PathB)>>,
    <<EditRun(CmdP), EditPatch(PathA, PatchXY), EditRun(CmdL), EditDelete(PathA)>>,
    <<EditWrite(PathA, TextY), EditRun(<<" ">>), EditWrite(PathB, TextY)>>,
    <<EditDelete(PathB), EditWrite(PathB, TextX)>> }

InitApply == InitCtl(InitialDisk, 1, 1) /\ InitFnIdle

ApplyResponse == ChatResponseWith(ApplyResponses)

NextApply ==
  \/ SendChat
  \/ ApplyResponse
  \/ ChatBuildStep
  \/ ChatBuildDone
  \/ ChatFinish
  \/ AcceptAllStart
  \/ \E i \in 1..Len(flows) : ApplyStepOk(i)
  \/ \E i \in 1..Len(flows) : ApplyStepFail(i)
  \/ \E i \in 1..Len(flows) : AcceptAllFinish(i)

SpecApply == InitApply /\ [][NextApply]_vars

(***************************************************************************)
(* Accept-all followed by reject-all on sets with renames, one of them of  *)
(* a file whose name holds " → "; one I/O error may be raised.             *)
(***************************************************************************)

\* The file name "a → b".
ArrowPath == PathA \o Arrow \o PathB

UndoDisk == [p \in {PathA, ArrowPath} |-> TextX]

UndoResponses ==
  RevertResponses \cup
  { <<EditRename(ArrowPath, PathB), EditWrite(PathA, TextY)>>,
    <<EditPatch(PathB, PatchXY)>> }

InitUndo == InitCtl(UndoDisk, 1, 1) /\ InitFnIdle

UndoResponse == ChatResponseWith(UndoResponses)

NextUndo ==
  \/ SendChat
  \/ UndoResponse
  \/ ChatBuildStep
  \/ ChatBuildFail
  \/ ChatBuildDone
  \/ ChatFinish
  \/ AcceptAllStart
  \/ RejectAllStart
  \/ \E i \in 1..Len(flows) : ApplyStepOk(i)
  \/ \E i \in 1..Len(flows) : ApplyStepFail(i)
  \/ \E i \in 1..Len(flows) : AcceptAllFinish(i)
  \/ \E i \in 1..Len(flows) : RejectAllFinish(i)

SpecUndo == InitUndo /\ [][NextUndo]_vars

(***************************************************************************)
(* Single-file reject on an applied set: one chat message, the set applied *)
(* by accept-all or by a single-file accept, then files rejected one by    *)
(* one; one I/O error may be raised.                                       *)
(***************************************************************************)

RejectFileResponses ==
  Responses \cup
  { <<EditWrite(PathB, TextY), EditDelete(PathA)>>,
    <<EditRename(PathA, PathB), EditWrite(PathA, TextY)>>,
    <<EditWrite(PathB, TextY), EditRename(PathB, PathA)>>,
    <<EditWrite(PathB, TextY)>> }

InitRejectFile == InitCtl(InitialDisk, 1, 1) /\ InitFnIdle

RejectFileResponse == ChatResponseWith(RejectFileResponses)

NextRejectFile ==
  \/ SendChat
  \/ RejectFileResponse
  \/ ChatBuildStep
  \/ ChatBuildDone
  \/ ChatFinish
  \/ AcceptAllStart
  \/ AcceptFileStart
  \/ RejectFileStart
  \/ \E i \in 1..Len(flows) : ApplyStepOk(i)
  \/ \E i \in 1..Len(flows) : ApplyStepFail(i)
  \/ \E i \in 1..Len(flows) : AcceptAllFinish(i)
  \/ \E i \in 1..Len(flows) : AcceptFileFinish(i)
  \/ \E i \in 1..Len(flows) : RejectFileDone(i)
  \/ \E i \in 1..Len(flows) : RejectFileFail(i)

SpecRejectFile == InitRejectFile /\ [][NextRejectFile]_vars

(***************************************************************************)
(* parseUnifiedDiff on one hunk header followed by at most MaxBodyLen      *)
(* lines: context, added and removed lines, among them the removed line    *)
(* "-- a" and the added line "++ a", the no-newline marker, lines with no  *)
(* prefix and a second hunk header.                                        *)
(***************************************************************************)

\* The most lines after the first hunk header.
MaxBodyLen == 2

\* @@ -1 +1 @@
HeaderLine == <<"@", "@", " ", "-", "1", " ", "+", "1", " ", "@", "@">>

BodyLines ==
  { <<" ", "a">>, <<"+", "a">>, <<"-", "a">>, <<"a">>,
    <<"-", "-", "-", " ", "a">>, <<"+", "+", "+", " ", "a">>,
    <<"d", "i", "f", "f", " ", "a">>, NoNewlineMarker, HeaderLine }

InitBody == InitFn(LinesUpTo(BodyLines, MaxBodyLen))

BodyCall ==
  /\ fnPc = "ready"
  /\ fnRes' = parseUnifiedDiff(Join(<<HeaderLine>> \o fnArg, <<"\n">>))
  /\ fnPc' = "done"
  /\ UNCHANGED <<ctlVars, fnArg>>

SpecBody == InitBody /\ [][BodyCall]_vars

(***************************************************************************)
(* A rename with modification: the answer renames a to b and patches b,    *)
(* given as the two edits or as the git diff of the rename that the        *)
(* splitter turns into them; one chat message, accept-all, one I/O error.  *)
(***************************************************************************)

\* The git diff of the rename of a to b with its line x changed to y.
RenameDiff ==
  <<"d", "i", "f", "f", " ", "-", "-", "g", "i", "t", " ", "a", "/", "a", " ", "b", "/",
    "b", "\n", "r", "e", "n", "a", "m", "e", " ", "f", "r", "o", "m", " ", "a", "\n", "r",
    "e", "n", "a", "m", "e", " ", "t", "o", " ", "b", "\n", "-", "-", "-", " ", "a", "/",
    "a", "\n", "+", "+", "+", " ", "b", "/", "b", "\n", "@", "@", " ", "-", "1", " ", "+",
    "1", " ", "@", "@", "\n", "-", "x", "\n", "+", "y">>

RenameResponses ==
  RevertResponses \cup
  { <<EditRename(PathA, PathB), EditPatch(PathB, PatchXY)>>,
    <<EditPatch(Null, RenameDiff)>> }

InitRename == InitCtl(InitialDisk, 1, 1) /\ InitFnIdle

RenameResponse == ChatResponseWith(RenameResponses)

NextRename ==
  \/ SendChat
  \/ RenameResponse
  \/ ChatBuildStep
  \/ ChatBuildFail
  \/ ChatBuildDone
  \/ ChatFinish
  \/ AcceptAllStart
  \/ \E i \in 1..Len(flows) : ApplyStepOk(i)
  \/ \E i \in 1..Len(flows) : ApplyStepFail(i)
  \/ \E i \in 1..Len(flows) : AcceptAllFinish(i)

SpecRename == InitRename /\ [][NextRename]_vars

(***************************************************************************)
(* computeStats on a set of one or two files whose before and after are    *)
(* texts of at most MaxStatLen characters over a, b and the newline, or    *)
(* null.                                                                   *)
(***************************************************************************)

\* The longest before or after text handed to computeStats.
MaxStatLen == 2

StatTexts == StringsUpTo({"a", "b", "\n"}, MaxStatLen) \cup {Null}

\* A second file of the set, or none.
StatOthers == {<<>>, <<ChangeFile("write", PathB, Null, TextY)>>}

InitStats == InitFn([before : StatTexts, after : StatTexts, others : StatOthers])

StatsCall ==
  /\ fnPc = "ready"
  /\ fnRes' = computeStats(<<ChangeFile("write", PathA, fnArg.before, fnArg.after)>>
                           \o fnArg.others)
  /\ fnPc' = "done"
  /\ UNCHANGED <<ctlVars, fnArg>>

SpecStats == InitStats /\ [][StatsCall]_vars

(***************************************************************************)
(* The patch applier on a hand-written hunk and on the same hunk with a    *)
(* newline after its last line.                                            *)
(***************************************************************************)

InitNewline == InitFn([before : Texts, start : OldStarts, body : HunkBodies])

NewlineCall ==
  /\ fnPc = "ready"
  /\ fnRes' = [plain |-> applyUnifiedDiffToText(fnArg.before,
                                                HunkPatch(fnArg.start, fnArg.body)),
               ended |-> applyUnifiedDiffToText(fnArg.before,
                                                HunkPatch(fnArg.start, fnArg.body) \o <<"\n">>)]
  /\ fnPc' = "done"
  /\ UNCHANGED <<ctlVars, fnArg>>

SpecNewline == InitNewline /\ [][NewlineCall]_vars

(***************************************************************************)
(* The busy gate under fair scheduling: one chat message, one I/O error.   *)
(* The handlers in flight await only timers and workspace I/O, which       *)
(* settle, so a handler that can take its next step eventually takes it;   *)
(* the user's clicks are under no such obligation.                         *)
(***************************************************************************)

\* The answers: those of Responses and a patch of b, which does not exist,
\* so that its build fails.
GateResponses == Responses \cup {<<EditPatch(PathB, PatchXY)>>}

InitGate == InitCtl(InitialDisk, 1, 1) /\ InitFnIdle

GateResponse == ChatResponseWith(GateResponses)

\* The next step of an accept or reject call in flight.
FlowStep ==
  \E i \in 1..Len(flows) :
    \/ ApplyStepOk(i)
    \/ ApplyStepFail(i)
    \/ AcceptAllFinish(i)
    \/ RejectAllFinish(i)
    \/ AcceptFileFinish(i)
    \/ RejectFileDone(i)
    \/ RejectFileFail(i)

\* The next step of sendChat once the answer has arrived with edits.
BuildStep == ChatBuildStep \/ ChatBuildFail \/ ChatBuildDone \/ ChatFinish

\* Whether call i can take a step: the guards of the disjuncts of FlowStep.
FlowCanStep(i) ==
  \/ IsApplyFlow(i) /\ Len(flows[i].todo) > 0 /\ NextOutcomes(i) # {}
  \/ IsApplyFlow(i) /\ Len(flows[i].todo) = 0
  \/ /\ flows[i].kind = "rejectFile"
     /\ RestoreOutcomes(FindWrite(flows[i].cs, flows[i].path), disk, tabs, ioFailsLeft > 0) # {}

\* ENABLED <<FlowStep>>_vars: every step of a call changes flows.
FlowPending == \E i \in 1..Len(flows) : FlowCanStep(i)

\* ENABLED <<BuildStep>>_vars: a build in its loop steps, fails or returns,
\* and a proposed set is posted; each changes chat.
BuildPending == chat.phase \in {"building", "proposed"}

\* WF_vars(FlowStep) and WF_vars(BuildStep), written out with the enabling
\* conditions above.
FairFlows == []<>~FlowPending \/ []<><<FlowStep>>_vars

FairBuild == []<>~BuildPending \/ []<><<BuildStep>>_vars

NextGate ==
  \/ SendChat
  \/ ChatResponseNoEdits
  \/ GateResponse
  \/ SelectChangeFile
  \/ AcceptAllRetire
  \/ AcceptAllDeclined
  \/ AcceptAllStart
  \/ RejectAllDiscard
  \/ RejectAllStart
  \/ AcceptFileStart
  \/ AcceptFileApplied
  \/ RejectFileProposed
  \/ RejectFileStart
  \/ BuildStep
  \/ FlowStep

SpecGate == InitGate /\ [][NextGate]_vars /\ FairFlows /\ FairBuild

(***************************************************************************)
(* Properties.                                                             *)
(***************************************************************************)

\* C1: when reject-all has run on a set that accept-all applied to the
\* workspace it was built against, with nothing else touching the workspace,
\* the workspace is the one the set was built against and no set is live.
RevertInvertsApply ==
  lastAction.name \in {"RejectAllFinish", "rejectAllFail"}
    => disk = disk0 /\ changeSet = NoCS

\* C2: a live set that is not applied has had none of its operations
\* performed: an accept that failed after performing some of them does not
\* leave the set live and not applied.
ProposedMeansUntouched ==
  ~ /\ lastAction.name \in {"acceptAllFail", "acceptFileFail"}
    /\ lastAction.n > 0
    /\ changeSet.id = lastAction.id
    /\ ~changeSet.applied

\* Every entry of the files list is reflected in the workspace: a write
\* entry's path holds its after text, a delete entry's path does not exist.
Reflected(cs, d) ==
  \A i \in 1..Len(cs.files) :
    /\ cs.files[i].kind = "write" =>
         Exists(d, cs.files[i].path) /\ d[cs.files[i].path] = cs.files[i].after
    /\ cs.files[i].kind = "delete" => ~Exists(d, cs.files[i].path)

\* C3: at the step that sets a set's applied flag, every entry of its files
\* list is reflected in the workspace.
AppliedMeansReflected ==
  lastAction.name \in {"AcceptAllFinish", "AcceptFileFinish"} => Reflected(changeSet, disk)

\* C4: at most one apply / revert flow is in flight.
AtMostOneFlow == Len(flows) <= 1

\* C5: applying the standard unified diff of two texts to the first returns
\* ok with the second.
PatchRoundTrip ==
  fnPc = "done" => fnRes.ok /\ fnRes.text = fnArg.after

HasDotDotSegment(path) ==
  \E i \in 1..Len(Split(path, "/")) : Split(path, "/")[i] = <<".", ".">>

\* No leading "/", no drive-letter prefix, no backslash, no ".." segment.
IsWorkspaceRelative(path) ==
  /\ CharAt(path, 0) # "/"
  /\ ~(CharAt(path, 0) \in Letters /\ CharAt(path, 1) = ":")
  /\ ~Includes(path, <<"\\">>)
  /\ ~HasDotDotSegment(path)

\* C6: every path, from and to of the edits normalizeAiEdits returns is
\* workspace-relative and traversal-free.
NormalizedPathsAreRelative ==
  fnPc = "done" =>
    \A i \in 1..Len(fnRes.edits) :
      /\ fnRes.edits[i].path # Null => IsWorkspaceRelative(fnRes.edits[i].path)
      /\ fnRes.edits[i].from # Null => IsWorkspaceRelative(fnRes.edits[i].from)
      /\ fnRes.edits[i].to # Null => IsWorkspaceRelative(fnRes.edits[i].to)

\* The lines of the ops of the given types, in order.
Side(ops, types) ==
  LET on(op) == op.type \in types
      kept   == SelectSeq(ops, on)
  IN  [i \in 1..Len(kept) |-> kept[i].line]

\* C7: the script diffLines returns has the lines of before as its context
\* and delete lines, the lines of after as its context and add lines, and
\* as many add and delete entries as the shortest edit distance.
DiffIsMinimalScript ==
  fnPc = "done" =>
    /\ Side(fnRes, {"ctx", "del"}) = splitLines(fnArg.before)
    /\ Side(fnRes, {"ctx", "add"}) = splitLines(fnArg.after)
    /\ CountType(fnRes, "add") + CountType(fnRes, "del")
         = Len(splitLines(fnArg.before)) + Len(splitLines(fnArg.after))
           - 2 * LcsLen(splitLines(fnArg.before), splitLines(fnArg.after))

\* C8: after a single-file reject on a Proposed set that stays live, the
\* set holds no write, patch or delete edit on the rejected path.
RejectedFileLeavesEdits ==
  lastAction.name = "RejectFileProposed" /\ changeSet # NoCS
    => Len(FileEdits(changeSet, lastAction.path)) = 0

\* C9: the stats of a live set are computeStats of its files.
StatsMatchFiles ==
  changeSet # NoCS => changeSet.stats = computeStats(changeSet.files)

\* A set shrunk by a per-file accept or reject is live.
StatsMatchFilesWitness ==
  /\ lastAction.name \in {"AcceptFileApplied", "RejectFileProposed", "RejectFileDone"}
  /\ changeSet # NoCS

\* C10: accept-all on an Applied set performs no workspace operation and
\* starts no flow: it only clears the live set.
AcceptAllOnAppliedRetires ==
  [][lastAction'.name = "AcceptAllRetire"
       => disk' = disk /\ flows' = flows /\ changeSet' = NoCS]_vars

\* Accept-all has been invoked on an Applied set.
AcceptAllOnAppliedWitness ==
  lastAction.name = "AcceptAllRetire" /\ Exists(disk, PathB)

\* The texts of the context and delete lines of a hunk body, in order.
OldTexts(body) ==
  LET old(l) == l[1] \in {" ", "-"}
      kept   == SelectSeq(body, old)
  IN  [i \in 1..Len(kept) |-> <<kept[i][2]>>]

\* The hunk has context or delete lines and they occur nowhere in the base
\* as one run: wherever the hunk is placed, one of them meets another line.
HunkMatchesNowhere(before, body) ==
  /\ Len(OldTexts(body)) > 0
  /\ \A i \in 0..(Len(splitLines(before)) - Len(OldTexts(body))) :
       SubSeq(splitLines(before), i + 1, i + Len(OldTexts(body))) # OldTexts(body)

\* C11: a hunk whose context or delete lines do not match the base is
\* refused with one of the two errors that name the expected and the actual
\* line (the context mismatch and the delete mismatch), and no text.
MismatchNamesBothLines ==
  fnPc = "done" /\ HunkMatchesNowhere(fnArg.before, fnArg.body)
    => ~fnRes.ok /\ fnRes.error \in {"Context mismatch", "Delete mismatch"}

\* C12: the step at which a patch of the build fails leaves the live set
\* (a set of an earlier message, or none) and the workspace as they were.
BuildFailureLeavesNoSet ==
  [][lastAction'.name = "ChatBuildFail" => changeSet' = changeSet /\ disk' = disk]_vars

\* A build has failed while the set of an earlier message was live.
BuildFailureWitness ==
  lastAction.name = "ChatBuildFail" /\ changeSet # NoCS

\* The indexes at or after the cursor at which the run occurs in the base.
ValidStarts(hay, seq, minIndex) ==
  {i \in minIndex..(Len(hay) - Len(seq)) : SubSeq(hay, i + 1, i + Len(seq)) = seq}

\* The valid start closest to the preferred index, the lowest on a tie.
ClosestStart(valid, preferredIndex) ==
  CHOOSE i \in valid :
    \A j \in valid :
      \/ Abs(i - preferredIndex) < Abs(j - preferredIndex)
      \/ Abs(i - preferredIndex) = Abs(j - preferredIndex) /\ i <= j

\* C13: the anchor search returns the valid start closest to the preferred
\* index, the lowest on a tie (none when there is no valid start), and a
\* hunk of context lines that occur in the base applies and leaves the base
\* as it is, wherever its header says it starts.
AnchorIsClosestRun ==
  fnPc = "done" =>
    LET valid == ValidStarts(fnArg.hay, fnArg.seq, fnArg.minIndex)
    IN  /\ valid = {} => fnRes.index = NotFound
        /\ valid # {} => fnRes.index = ClosestStart(valid, fnArg.preferredIndex)
        /\ Len(fnArg.seq) > 0 /\ ValidStarts(fnArg.hay, fnArg.seq, 0) # {}
             => fnRes.patched.ok /\ fnRes.patched.text = Join(fnArg.hay, <<"\n">>)

\* The search has run on base A, B, C, D, E for the run B, C preferred at
\* index 0: the match is at index 1 and the hunk applies.
AnchorExampleWitness ==
  fnPc = "done" /\ fnArg = AnchorExample /\ fnRes.index = 1 /\ fnRes.patched.ok

\* The files entries of the given kind on the path.
EntriesOn(cs, kind, path) ==
  LET on(f) == f.kind = kind /\ f.path = path IN SelectSeq(cs.files, on)

\* The content of the last write edit on the path.
LastWriteOn(edits, path) ==
  LET on(e) == e.op = "write" /\ TrimmedOrEmpty(e.path) = path
      ws    == SelectSeq(edits, on)
  IN  StrOrEmpty(ws[Len(ws)].content)

\* C14: in a set built from write and delete edits, each (kind, path) of
\* the edits has exactly one files entry, and a write entry holds the
\* content of the last write on its path.
LastWriteWins ==
  lastAction.name = "ChatBuildDone"
    /\ (\A i \in 1..Len(changeSet.edits) : changeSet.edits[i].op \in {"write", "delete"})
    => \A i \in 1..Len(changeSet.edits) :
         LET e == changeSet.edits[i]
             p == TrimmedOrEmpty(e.path)
         IN  Len(p) > 0 =>
               /\ Len(EntriesOn(changeSet, e.op, p)) = 1
               /\ e.op = "write" =>
                    EntriesOn(changeSet, "write", p)[1].after = LastWriteOn(changeSet.edits, p)

\* What the confirmation is claimed to be asked for: more than 8 files, a
\* delete, a rename, or a new file.
IsRisky(cs) ==
  \/ Len(cs.files) > 8
  \/ \E i \in 1..Len(cs.files) :
       \/ cs.files[i].kind \in {"delete", "rename"}
       \/ cs.files[i].kind = "write" /\ cs.files[i].before = Null

\* C15: an accept-all that goes ahead on a risky Proposed set has asked for
\* confirmation, and a declined accept-all leaves the workspace, the flows
\* and the live set (still Proposed) as they were.
RiskyAcceptAllAsksFirst ==
  [][/\ lastAction'.name = "AcceptAllStart" /\ IsRisky(changeSet) => lastAction'.n = 1
     /\ lastAction'.name = "AcceptAllDeclined" =>
          /\ disk' = disk /\ flows' = flows
          /\ changeSet' = changeSet /\ ~changeSet'.applied]_vars

\* Accept-all has been declined on a set of more than 8 files.
DeclinedLargeWitness ==
  lastAction.name = "AcceptAllDeclined" /\ Len(changeSet.files) > 8

\* C16: a live set has at least one files entry.
LiveSetHasFiles ==
  changeSet # NoCS => Len(changeSet.files) > 0

\* The edits are the one write of hi to x.ts.
IsTheOneWrite(edits) ==
  /\ Len(edits) = 1
  /\ Field(edits[1], <<"o", "p">>) = JString(<<"w", "r", "i", "t", "e">>)
  /\ Field(edits[1], <<"p", "a", "t", "h">>) = JString(<<"x", ".", "t", "s">>)
  /\ Field(edits[1], <<"c", "o", "n", "t", "e", "n", "t">>) = JString(<<"h", "i">>)

\* C18: from the text cut right after the edit (no tail, no prose before
\* it) the result is not null and its edits are the one write.
RecoversTruncatedEdits ==
  fnPc = "done" /\ fnArg.prefix = <<>> /\ fnArg.tail = <<>>
    => ~fnRes.isNull /\ IsTheOneWrite(fnRes.edits)

\* C17: the split of a two-block diff, one block a modification with a hunk
\* and one marked "deleted file mode", is one patch and one delete in block
\* order, on the two files' paths without the a/ and b/ of the headers.
SplitGivesPatchAndDelete ==
  fnPc = "done" =>
    /\ Len(fnRes) = 2
    /\ fnRes[IF fnArg.deletedFirst THEN 2 ELSE 1].op = "patch"
    /\ fnRes[IF fnArg.deletedFirst THEN 2 ELSE 1].path = fnArg.path
    /\ fnRes[IF fnArg.deletedFirst THEN 1 ELSE 2].op = "delete"
    /\ fnRes[IF fnArg.deletedFirst THEN 1 ELSE 2].path = fnArg.deleted

\* C19: "../../etc/passwd" is sanitized to "passwd" and "./a/b.ts" to
\* "a/b.ts" under every root, and "/abs/root/src/a.ts" to "src/a.ts" under
\* the workspace root "/abs/root".
SanitizeExamples ==
  fnPc = "done" =>
    /\ (fnArg.prefix = <<".", ".", "/", ".", ".", "/">>
        /\ fnArg.tail = <<"e", "t", "c", "/", "p", "a", "s", "s", "w", "d">>)
         => fnRes = <<"p", "a", "s", "s", "w", "d">>
    /\ (fnArg.prefix = <<"/", "a", "b", "s", "/", "r", "o", "o", "t", "/">>
        /\ fnArg.tail = <<"s", "r", "c", "/", "a", ".", "t", "s">>
        /\ fnArg.root = <<"/", "a", "b", "s", "/", "r", "o", "o", "t">>)
         => fnRes = <<"s", "r", "c", "/", "a", ".", "t", "s">>
    /\ (fnArg.prefix = <<".", "/">> /\ fnArg.tail = <<"a", "/", "b", ".", "t", "s">>)
         => fnRes = <<"a", "/", "b", ".", "t", "s">>

SanitizeExamplesWitness ==
  /\ fnPc = "done"
  /\ fnArg.prefix = <<".", ".", "/", ".", ".", "/">>
  /\ fnArg.tail = <<"e", "t", "c", "/", "p", "a", "s", "s", "w", "d">>
  /\ fnRes = <<"p", "a", "s", "s", "w", "d">>

\* C20: reject-all on a Proposed set starts no flow and leaves the
\* workspace as it is (no write, delete or rename), and the live set is
\* null after it.
RejectAllOnProposedDiscards ==
  [][lastAction'.name = "RejectAllDiscard" =>
       /\ changeSet # NoCS /\ ~changeSet.applied
       /\ disk' = disk /\ flows' = flows /\ ~chatApplying'
       /\ changeSet' = NoCS]_vars

RejectAllOnProposedWitness ==
  /\ lastAction.name = "RejectAllDiscard"
  /\ changeSet = NoCS
  /\ disk = ReviewDisk

RECURSIVE DistinctRuns(_, _, _)
\* The trimmed commands of the run edits among the first n edits, each once,
\* in the order of their first occurrence.
DistinctRuns(edits, n, i) ==
  IF i > n THEN <<>>
  ELSE LET rest == DistinctRuns(edits, n, i + 1)
           cmd  == Trim(StrOrEmpty(edits[i].content))
           other(c) == c # cmd
       IN  IF edits[i].op = "run" THEN <<cmd>> \o SelectSeq(rest, other) ELSE rest

\* The workspaces a file operation of the edit can leave: the file written,
\* patched, removed or moved, and nothing else touched.
EffectsOf(e, d) ==
  IF e.op = "write" THEN {DiskPut(d, e.path, e.content)}
  ELSE IF e.op = "patch"
  THEN {DiskPut(d, e.path, applyUnifiedDiffToText(ReadOr(d, e.path, <<>>), e.content).text)}
  ELSE IF e.op = "delete" THEN {DiskRemove(d, e.path)}
  ELSE IF e.op = "rename" THEN {DiskPut(DiskRemove(d, e.from), e.to, d[e.from])}
  ELSE {d}

\* An accept-all in flight has performed a prefix of its set's edits, the
\* rest is still to do in the declared order, and it holds the distinct run
\* commands of that prefix.
InDeclaredOrder(f) ==
  /\ f.performed <= Len(f.cs.edits)
  /\ f.todo = SubSeq(f.cs.edits, f.performed + 1, Len(f.cs.edits))
  /\ f.runs = DistinctRuns(f.cs.edits, f.performed, 1)

\* C21: accept-all performs the edits of its set one at a time in their
\* declared order; a step on a run edit leaves the workspace alone and a
\* step on any other edit leaves it as that one operation does; the set is
\* stored as applied only by the step that ends the pass, after every edit
\* was performed, and that step hands over the distinct run commands in
\* first-occurrence order.
AcceptAllAppliesInOrder ==
  [][/\ \A i \in 1..Len(flows') : flows'[i].kind = "acceptAll" => InDeclaredOrder(flows'[i])
     /\ lastAction'.name = "ApplyStepOk" =>
          \A i \in 1..Len(flows) :
            flows[i].kind = "acceptAll" /\ flows'[i] # flows[i] =>
              /\ flows'[i].performed = flows[i].performed + 1
              /\ disk' \in EffectsOf(flows[i].todo[1], disk)
     /\ lastAction'.name # "ApplyStepOk" => disk' = disk
     /\ changeSet'.applied /\ ~changeSet.applied => lastAction'.name = "AcceptAllFinish"
     /\ lastAction'.name = "AcceptAllFinish" =>
          /\ changeSet'.applied
          /\ lastAction'.n = Len(changeSet'.edits)
          /\ runRequests' =
               PushRuns(runRequests, DistinctRuns(changeSet'.edits, Len(changeSet'.edits), 1))
     /\ lastAction'.name # "AcceptAllFinish" => runRequests' = runRequests]_vars

AcceptAllAppliesInOrderWitness ==
  /\ lastAction.name = "AcceptAllFinish"
  /\ changeSet.applied
  /\ runRequests = <<(<<CmdL, CmdP>>)>>
  /\ disk = (PathA :> TextY @@ PathB :> TextY)

\* The rename edit of the set that the files entry f stands for.
RenameOf(cs, f) ==
  CHOOSE e \in {cs.edits[k] : k \in 1..Len(cs.edits)} :
    e.op = "rename" /\ e.from \o Arrow \o e.to = f.path

\* The inverse of one files entry.
InverseEntry(cs, f) ==
  IF f.kind = "write" /\ f.before = Null THEN <<EditDelete(f.path)>>
  ELSE IF f.kind = "write" THEN <<EditWrite(f.path, f.before)>>
  ELSE IF f.kind = "delete" /\ f.before # Null THEN <<EditWrite(f.path, f.before)>>
  ELSE IF f.kind = "rename" THEN <<EditRename(RenameOf(cs, f).to, RenameOf(cs, f).from)>>
  ELSE <<>>

RECURSIVE InverseList(_, _)
\* The inverses of the files entries i, i - 1, .., 1.
InverseList(cs, i) ==
  IF i < 1 THEN <<>> ELSE InverseEntry(cs, cs.files[i]) \o InverseList(cs, i - 1)

\* C22: reject-all on an Applied set starts with the inverse list of its
\* files walked from last to first (a rename of from to to undone by the
\* rename of to to from), performs it in that order, clears the live set
\* when all of it succeeded and leaves the set live when a step failed.
RejectAllRunsInverseList ==
  [][/\ lastAction'.name = "RejectAllStart" =>
          flows'[Len(flows')].todo = InverseList(changeSet, Len(changeSet.files))
     /\ \A i \in 1..Len(flows') :
          flows'[i].kind = "rejectAll" =>
            flows'[i].todo = SubSeq(InverseList(flows'[i].cs, Len(flows'[i].cs.files)),
                                    flows'[i].performed + 1,
                                    Len(InverseList(flows'[i].cs, Len(flows'[i].cs.files))))
     /\ lastAction'.name = "RejectAllFinish" =>
          /\ changeSet' = NoCS
          /\ lastAction'.n = Len(InverseList(changeSet, Len(changeSet.files)))
     /\ lastAction'.name = "rejectAllFail" => changeSet' = changeSet /\ changeSet # NoCS]_vars

\* The workspace d with the file of the write entry f as it was before the
\* set: absent when before is null, else holding the before text.
Restored(d, f) ==
  [q \in (IF f.before = Null THEN (DOMAIN d) \ {f.path} ELSE (DOMAIN d) \cup {f.path}) |->
     IF q = f.path THEN f.before ELSE d[q]]

\* The entries of files that are not write entries on the path, in order.
OtherEntries(files, path) ==
  LET other(x) == ~(x.kind = "write" /\ x.path = path) IN SelectSeq(files, other)

\* C23: a single-file reject on an Applied set that succeeds leaves the
\* workspace as it was but for that file, which is restored, and the files
\* of the live set as they were but for that file's entries (the set is
\* null when none is left); one that fails leaves the live set as it was.
RejectFileRestoresOneFile ==
  [][/\ lastAction'.name = "RejectFileDone" =>
          /\ changeSet.applied
          /\ disk' = Restored(disk, FindWrite(changeSet, lastAction'.path))
          /\ changeSet'.files = OtherEntries(changeSet.files, lastAction'.path)
          /\ changeSet' # NoCS =>
               /\ changeSet'.edits = changeSet.edits
               /\ changeSet'.applied /\ changeSet'.id = changeSet.id
     /\ lastAction'.name = "RejectFileFail" => changeSet' = changeSet /\ disk' = disk]_vars

RejectFileRestoresWitness ==
  /\ lastAction.name = "RejectFileDone" /\ lastAction.path = PathA
  /\ disk = (PathA :> TextX @@ PathB :> TextY)
  /\ Len(changeSet.files) = 1 /\ changeSet.files[1].path = PathB

\* What the first character of a body line makes of it; the bare marker
\* gives no line.
ByFirstChar(l) ==
  IF l[1] = " " THEN <<[kind |-> "ctx", text |-> Tail(l)]>>
  ELSE IF l[1] = "+" THEN <<[kind |-> "add", text |-> Tail(l)]>>
  ELSE IF l[1] = "-" THEN <<[kind |-> "del", text |-> Tail(l)]>>
  ELSE IF l = NoNewlineMarker THEN <<>>
  ELSE <<[kind |-> "ctx", text |-> l]>>

RECURSIVE BodyUpToHeader(_, _)
\* The classified lines from line i on, up to the next hunk header.
BodyUpToHeader(lines, i) ==
  IF i > Len(lines) \/ lines[i] = HeaderLine THEN <<>>
  ELSE ByFirstChar(lines[i]) \o BodyUpToHeader(lines, i + 1)

\* C24: the lines of the first hunk are the lines after its header up to
\* the next header, each classified by its first character alone; none that
\* starts with "+" or "-" is missing.
BodyLinesClassified ==
  fnPc = "done" => Len(fnRes) >= 1 /\ fnRes[1].lines = BodyUpToHeader(fnArg, 1)

\* The path the edit of the input's shape carries the raw string in.
RawField(shape, e) ==
  IF shape = "write" THEN e.path ELSE IF shape = "renameFrom" THEN e.from ELSE e.to

\* C25: didSanitize is true exactly when the path, from or to of the
\* returned edit differs from the raw string it came from, the empty
\* string included.
DidSanitizeIffChanged ==
  fnPc = "done" =>
    (fnRes.didSanitize <=> RawField(fnArg.shape, fnRes.edits[1]) # fnArg.raw)

\* The edit list is a rename followed by a patch of the new path.
IsRenameThenPatch(edits) ==
  /\ Len(edits) = 2
  /\ edits[1].op = "rename" /\ edits[2].op = "patch"
  /\ edits[2].path = edits[1].to

\* C26: the build of a rename of a to b followed by a patch of b does not
\* fail, and the accept-all of its set leaves b with the patched content
\* and a absent.
RenameWithModificationBuilds ==
  [][/\ lastAction'.name = "ChatBuildFail" => ~IsRenameThenPatch(chat.edits)
     /\ lastAction'.name = "AcceptAllFinish" /\ IsRenameThenPatch(changeSet'.edits)
          => disk' = (PathB :> TextY)]_vars

\* The number of lines of a text, null counted as the empty text: the
\* pieces between newlines, as the differ cuts them.
LineCount(text) == Len(splitLines(OrEmpty(text)))

\* C27: added - removed is the sum over the files of the lines of after
\* less the lines of before.
StatsAreTrueCounts ==
  fnPc = "done" =>
    fnRes.added - fnRes.removed =
      (LineCount(fnArg.after) - LineCount(fnArg.before))
      + (IF Len(fnArg.others) = 0 THEN 0 ELSE LineCount(TextY) - LineCount(Null))

\* C28: a ChangeSet that has been replaced as the live one never becomes
\* live again.  Ids are issued in order and a set is live from the step
\* that issues its id, so every id below nextId that is not the live one
\* has been replaced: a step that makes another set live makes a new one.
ReplacedSetStaysReplaced ==
  [][changeSet' # NoCS /\ changeSet'.id # changeSet.id => changeSet'.id >= nextId]_vars

\* C29: a patch and the same patch followed by a newline have the same
\* outcome: both fail, or both succeed with the same text.
TrailingNewlineInvariance ==
  fnPc = "done" =>
    /\ fnRes.plain.ok = fnRes.ended.ok
    /\ fnRes.plain.ok => fnRes.plain.text = fnRes.ended.text

\* C30: whenever the busy gate is set, it is later released.
GateIsReleased == chatApplying ~> ~chatApplying

\* The gate is clear after a step of an accept or reject call failed.
GateIsReleasedWitness ==
  /\ ~chatApplying
  /\ lastAction.name \in {"acceptAllFail", "rejectAllFail", "acceptFileFail", "RejectFileFail"}
  /\ Len(flows) = 0
=============================================================================
